---- MODULE Spec2Model ----
(***************************************************************************)
(* Blocker detection / escalation pipeline and the session/bubble router   *)
(* of the Claude Code integration.                                         *)
(*                                                                         *)
(* Texts are TLA+ strings read character by character; the regular         *)
(* expressions of the source are values of a small regex algebra and are   *)
(* matched by a backtracking matcher with JavaScript's priorities          *)
(* (leftmost start, alternatives in order, greedy or lazy repetition).     *)
(*                                                                         *)
(* Four characters of the source that a TLA+ string cannot hold are        *)
(* written with stand-ins that occur nowhere else in the patterns or the   *)
(* inputs: "~" is U+2705 (white heavy check mark), "^" is U+2713 (check    *)
(* mark), "#" is the separator glyph of the bubble status header and "%"   *)
(* is the backquote of a Markdown code fence.                              *)
(***************************************************************************)
EXTENDS Integers, Sequences, FiniteSets, TLC

-----------------------------------------------------------------------------
(* Characters and strings                                                  *)

Char(s, i) == SubSeq(s, i, i)

CharsOf(s) == {Char(s, i) : i \in 1..Len(s)}

UpperLetters == "ABCDEFGHIJKLMNOPQRSTUVWXYZ"

LowerLetters == "abcdefghijklmnopqrstuvwxyz"

DigitChars == CharsOf("0123456789")

\* \s of a JavaScript regular expression and the characters trim() strips.
WhiteSpace == {" ", "\t", "\n", "\r", "\f"}

\* The characters "." does not match.
LineTerminators == {"\n", "\r"}

LowerOf == [c \in CharsOf(UpperLetters) |->
              Char(LowerLetters, CHOOSE k \in 1..26 : Char(UpperLetters, k) = c)]

UpperChars == CharsOf(UpperLetters)

LowerChar(c) == IF c \in UpperChars THEN LowerOf[c] ELSE c

\* The least element of a non-empty set of numbers.
Min(S) == CHOOSE i \in S : \A j \in S : i <= j

\* The elements of a set of numbers in increasing order.
Ascending(S) ==
    [n \in 1..Cardinality(S) |->
        CHOOSE i \in S : Cardinality({j \in S : j < i}) = n - 1]

\* The strings ss[lo..hi] joined with sep between them (by halves, so that
\* the evaluation stays shallow on long inputs).
RECURSIVE JoinRange(_, _, _, _)
JoinRange(ss, sep, lo, hi) ==
    IF lo > hi THEN ""
    ELSE IF lo = hi THEN ss[lo]
    ELSE LET mid == (lo + hi) \div 2
         IN  JoinRange(ss, sep, lo, mid) \o sep \o JoinRange(ss, sep, mid + 1, hi)

\* Array.prototype.join
join(ss, sep) == JoinRange(ss, sep, 1, Len(ss))

\* String.prototype.toLowerCase
toLowerCase(s) == join([i \in 1..Len(s) |-> LowerChar(Char(s, i))], "")

\* String.prototype.includes
includes(s, sub) ==
    \E i \in 1..(Len(s) - Len(sub) + 1) : SubSeq(s, i, i + Len(sub) - 1) = sub

\* String.prototype.trim
trim(s) ==
    LET Blank(i) == Char(s, i) \in WhiteSpace
    IN  IF \A i \in 1..Len(s) : Blank(i) THEN ""
        ELSE SubSeq(s,
                 CHOOSE i \in 1..Len(s) : ~Blank(i) /\ \A j \in 1..(i - 1) : Blank(j),
                 CHOOSE i \in 1..Len(s) : ~Blank(i) /\ \A j \in (i + 1)..Len(s) : Blank(j))

\* String.prototype.slice(0, n)
sliceTo(s, n) == IF Len(s) <= n THEN s ELSE SubSeq(s, 1, n)

\* The pieces of s between the characters at the positions at (ascending),
\* and at the positions in the set cuts.
PiecesAt(s, at) ==
    [k \in 1..(Len(at) + 1) |->
        SubSeq(s, IF k = 1 THEN 1 ELSE at[k - 1] + 1,
                  IF k = Len(at) + 1 THEN Len(s) ELSE at[k] - 1)]

PiecesBetween(s, cuts) == PiecesAt(s, Ascending(cuts))

\* String.prototype.split("\n")
splitLines(s) == PiecesBetween(s, {i \in 1..Len(s) : Char(s, i) = "\n"})

-----------------------------------------------------------------------------
(* Regular expressions                                                     *)

\* The nodes of a regular expression. ci is the i flag: the pattern is then
\* written in lower case and the characters of the text are read lower-cased.
Lit(s) == [k |-> "lit", s |-> s, ci |-> FALSE]
OneOf(cs) == [k |-> "set", cs |-> cs, neg |-> FALSE, ci |-> FALSE]
NoneOf(cs) == [k |-> "set", cs |-> cs, neg |-> TRUE, ci |-> FALSE]
Dot == [k |-> "set", cs |-> LineTerminators, neg |-> TRUE, ci |-> FALSE]
Cat(rs) == [k |-> "cat", rs |-> rs]
Alt(rs) == [k |-> "alt", rs |-> rs]
Rep(r, lo, hi) == [k |-> "rep", r |-> r, lo |-> lo, hi |-> hi, lazy |-> FALSE]
LazyRep(r, lo, hi) == [k |-> "rep", r |-> r, lo |-> lo, hi |-> hi, lazy |-> TRUE]
Inf == -1
Opt(r) == Rep(r, 0, 1)
Star(r) == Rep(r, 0, Inf)
Plus(r) == Rep(r, 1, Inf)
Group(r) == [k |-> "grp", r |-> r]
Bol == [k |-> "bol"]
AltLits(ss) == Alt([i \in 1..Len(ss) |-> Lit(ss[i])])

\* The expression r under the i flag.
RECURSIVE IgnoreCase(_)
IgnoreCase(r) ==
    CASE r.k \in {"lit", "set"} -> [r EXCEPT !.ci = TRUE]
      [] r.k \in {"cat", "alt"} ->
           [r EXCEPT !.rs = [i \in 1..Len(r.rs) |-> IgnoreCase(r.rs[i])]]
      [] r.k \in {"rep", "grp"} -> [r EXCEPT !.r = IgnoreCase(r.r)]
      [] OTHER -> r

\* The characters a match of r can begin with; open when r can also match
\* without reading one of a known set of characters (an empty match, a
\* negated class), so that every position has to be tried.
RECURSIVE First(_)
First(r) ==
    CASE r.k = "lit" ->
           IF r.s = "" THEN [open |-> TRUE, cs |-> {}]
           ELSE [open |-> FALSE, cs |-> {Char(r.s, 1)}]
      [] r.k = "set" ->
           IF r.neg THEN [open |-> TRUE, cs |-> {}] ELSE [open |-> FALSE, cs |-> r.cs]
      [] r.k = "cat" ->
           IF r.rs = <<>> THEN [open |-> TRUE, cs |-> {}] ELSE First(r.rs[1])
      [] r.k = "alt" ->
           [open |-> \E i \in 1..Len(r.rs) : First(r.rs[i]).open,
            cs |-> UNION {First(r.rs[i]).cs : i \in 1..Len(r.rs)}]
      [] r.k = "rep" ->
           IF r.lo = 0 THEN [open |-> TRUE, cs |-> {}] ELSE First(r.r)
      [] r.k = "grp" -> First(r.r)
      [] OTHER -> [open |-> TRUE, cs |-> {}]

\* A match in progress: e is the next position to read, c the span <<from, to>>
\* of capture group 1 (<<>> while the group has not taken part).
MState(e, c) == [e |-> e, c |-> c]

\* The sequences seqs[lo..hi] concatenated (by halves).
RECURSIVE Flatten(_, _, _)
Flatten(seqs, lo, hi) ==
    IF lo > hi THEN <<>>
    ELSE IF lo = hi THEN seqs[lo]
    ELSE LET mid == (lo + hi) \div 2
         IN  Flatten(seqs, lo, mid) \o Flatten(seqs, mid + 1, hi)

\* The character of s at position i as a node with flag ci reads it.
Read(s, i, ci) == IF ci THEN LowerChar(Char(s, i)) ELSE Char(s, i)

\* The character of s at position i lies in the class r.
InClass(r, s, i) == (Read(s, i, r.ci) \in r.cs) # r.neg

\* How many characters of s from position i on lie in the class r.
RunLength(r, s, i) ==
    LET Stops(k) == i + k > Len(s) \/ ~InClass(r, s, i + k)
    IN  CHOOSE k \in 0..(Len(s) - i + 1) :
            Stops(k) /\ \A j \in 0..(k - 1) : ~Stops(j)

\* All the ways r matches s at position st.e, in the order a backtracking
\* matcher tries them.
RECURSIVE Match(_, _, _)
RECURSIVE MatchCat(_, _, _, _)
RECURSIVE MatchRep(_, _, _, _)

Match(r, s, st) ==
    CASE r.k = "lit" ->
           IF st.e + Len(r.s) - 1 <= Len(s)
              /\ \A j \in 1..Len(r.s) : Read(s, st.e + j - 1, r.ci) = Char(r.s, j)
           THEN <<MState(st.e + Len(r.s), st.c)>> ELSE <<>>
      [] r.k = "set" ->
           IF st.e <= Len(s) /\ InClass(r, s, st.e)
           THEN <<MState(st.e + 1, st.c)>> ELSE <<>>
      [] r.k = "bol" -> IF st.e = 1 THEN <<st>> ELSE <<>>
      [] r.k = "cat" -> MatchCat(r.rs, 1, s, st)
      [] r.k = "alt" ->
           Flatten([k \in 1..Len(r.rs) |-> Match(r.rs[k], s, st)], 1, Len(r.rs))
      [] r.k = "rep" ->
           IF r.r.k = "set"
           THEN \* a repeated character class: every length from lo to the run
                \* (or hi), longest first when greedy, shortest first when lazy
                LET run == RunLength(r.r, s, st.e)
                    top == IF r.hi # Inf /\ r.hi < run THEN r.hi ELSE run
                    cnt == IF top >= r.lo THEN top - r.lo + 1 ELSE 0
                IN  [j \in 1..cnt |->
                        MState(st.e + (IF r.lazy THEN r.lo + j - 1 ELSE top - j + 1),
                               st.c)]
           ELSE MatchRep(r, s, st, 0)
      [] r.k = "grp" ->
           LET inner == Match(r.r, s, st)
           IN  [i \in 1..Len(inner) |-> MState(inner[i].e, <<st.e, inner[i].e - 1>>)]

\* The concatenation rs from its k-th part on: the rest is tried after each
\* match of the k-th part, in order.
MatchCat(rs, k, s, st) ==
    IF k > Len(rs) THEN <<st>>
    ELSE LET first == Match(rs[k], s, st)
         IN  Flatten([i \in 1..Len(first) |-> MatchCat(rs, k + 1, s, first[i])],
                     1, Len(first))

\* n iterations are done; an iteration that consumes nothing is rejected.
MatchRep(r, s, st, n) ==
    LET stop == IF n >= r.lo THEN <<st>> ELSE <<>>
        once == IF r.hi # Inf /\ n >= r.hi THEN <<>>
                ELSE SelectSeq(Match(r.r, s, st), LAMBDA m : m.e > st.e)
        more == Flatten([i \in 1..Len(once) |-> MatchRep(r, s, once[i], n + 1)],
                        1, Len(once))
    IN  IF r.lazy THEN stop \o more ELSE more \o stop

\* The null of a failed match.
NoMatch == [found |-> FALSE]

\* A regular expression with its flags: src is pattern.source, ci the i flag.
RegExp(src, r, ci) ==
    [source |-> src, r |-> IF ci THEN IgnoreCase(r) ELSE r, ci |-> ci,
     first |-> First(r)]

\* The positions of s where a match of re can start.
Starts(re, s) ==
    IF re.first.open THEN 1..(Len(s) + 1)
    ELSE {i \in 1..Len(s) : Read(s, i, re.ci) \in re.first.cs}

MatchesAt(re, s, i) == Match(re.r, s, MState(i, <<>>))

\* RegExp.prototype.exec without the g flag: the first match from the
\* leftmost start, with its span from..to and cap, the text of group 1 ("" when
\* the group did not take part: both are falsy to the callers).
MatchArray(s, from, m) ==
    [found |-> TRUE, from |-> from, to |-> m.e - 1,
     cap |-> IF m.c = <<>> THEN "" ELSE SubSeq(s, m.c[1], m.c[2])]

ExecFrom(re, s, hits) ==
    IF hits = {} THEN NoMatch
    ELSE MatchArray(s, Min(hits), MatchesAt(re, s, Min(hits))[1])

exec(re, s) == ExecFrom(re, s, {i \in Starts(re, s) : MatchesAt(re, s, i) # <<>>})

\* RegExp.prototype.test
test(re, s) == \E i \in Starts(re, s) : MatchesAt(re, s, i) # <<>>

-----------------------------------------------------------------------------
(* Blocker detector: the pattern table                                     *)

undefined == [undefined |-> TRUE]

Apostrophes == OneOf({"'"})

BLOCKER_PATTERNS == <<
    [category |-> "waiting_for_user",
     patterns |-> <<
        RegExp("let me know when", Lit("let me know when"), TRUE),
        RegExp("once you['']ve", Cat(<<Lit("once you"), Apostrophes, Lit("ve")>>), TRUE),
        RegExp("after you['']ve", Cat(<<Lit("after you"), Apostrophes, Lit("ve")>>), TRUE),
        RegExp("when you['']re ready",
               Cat(<<Lit("when you"), Apostrophes, Lit("re ready")>>), TRUE),
        RegExp("waiting for you", Lit("waiting for you"), TRUE),
        RegExp("please (complete|finish|do|run|execute|claim|fund)",
               Cat(<<Lit("please "),
                     AltLits(<<"complete", "finish", "do", "run", "execute",
                               "claim", "fund">>)>>), TRUE),
        RegExp("you['']ll need to",
               Cat(<<Lit("you"), Apostrophes, Lit("ll need to")>>), TRUE),
        RegExp("you need to", Lit("you need to"), TRUE),
        RegExp("please let me know", Lit("please let me know"), TRUE) >>,
     extractors |-> <<>>],
    [category |-> "funding_needed",
     patterns |-> <<
        RegExp("need(s|ed)? (more )?(sol|funds|funding|balance)",
               Cat(<<Lit("need"), Opt(AltLits(<<"s", "ed">>)), Lit(" "),
                     Opt(Lit("more ")),
                     AltLits(<<"sol", "funds", "funding", "balance">>)>>), TRUE),
        RegExp("insufficient (sol|balance|funds)",
               Cat(<<Lit("insufficient "),
                     AltLits(<<"sol", "balance", "funds">>)>>), TRUE),
        RegExp("airdrop (failed|rate.?limit)",
               Cat(<<Lit("airdrop "),
                     Alt(<<Lit("failed"),
                           Cat(<<Lit("rate"), Opt(Dot), Lit("limit")>>)>>)>>), TRUE),
        RegExp("faucet", Lit("faucet"), TRUE),
        RegExp("claim (sol|tokens)",
               Cat(<<Lit("claim "), AltLits(<<"sol", "tokens">>)>>), TRUE) >>,
     extractors |-> <<
        \* Solana address: 32 to 44 base58 characters, case-sensitive
        [field |-> "wallet",
         pattern |-> RegExp("([1-9A-HJ-NP-Za-km-z]{32,44})",
               Group(Rep(OneOf(CharsOf("123456789ABCDEFGHJKLMNPQRSTUVWXYZ")
                               \cup CharsOf("abcdefghijkmnopqrstuvwxyz")),
                         32, 44)), FALSE)],
        [field |-> "needed",
         pattern |-> RegExp("need(?:s|ed)?\\s+(\\d+(?:\\.\\d+)?)\\s*sol",
               Cat(<<Lit("need"), Opt(AltLits(<<"s", "ed">>)),
                     Plus(OneOf(WhiteSpace)),
                     Group(Cat(<<Plus(OneOf(DigitChars)),
                                 Opt(Cat(<<Lit("."), Plus(OneOf(DigitChars))>>))>>)),
                     Star(OneOf(WhiteSpace)), Lit("sol")>>), TRUE)],
        [field |-> "current",
         pattern |-> RegExp("(?:current|balance)[:\\s]+(\\d+(?:\\.\\d+)?)\\s*sol",
               Cat(<<AltLits(<<"current", "balance">>),
                     Plus(OneOf(WhiteSpace \cup {":"})),
                     Group(Cat(<<Plus(OneOf(DigitChars)),
                                 Opt(Cat(<<Lit("."), Plus(OneOf(DigitChars))>>))>>)),
                     Star(OneOf(WhiteSpace)), Lit("sol")>>), TRUE)] >>],
    [category |-> "external_action",
     patterns |-> <<
        RegExp("manual(ly)?", Cat(<<Lit("manual"), Opt(Lit("ly"))>>), TRUE),
        RegExp("browser", Lit("browser"), TRUE),
        RegExp("captcha", Lit("captcha"), TRUE),
        RegExp("verification", Lit("verification"), TRUE),
        RegExp("authenticate", Lit("authenticate"), TRUE),
        RegExp("2fa|two.?factor",
               Alt(<<Lit("2fa"), Cat(<<Lit("two"), Opt(Dot), Lit("factor")>>)>>),
               TRUE) >>,
     extractors |-> <<>>],
    [category |-> "rate_limited",
     patterns |-> <<
        RegExp("rate.?limit", Cat(<<Lit("rate"), Opt(Dot), Lit("limit")>>), TRUE),
        RegExp("too many requests", Lit("too many requests"), TRUE),
        RegExp("try again (later|in)",
               Cat(<<Lit("try again "), AltLits(<<"later", "in">>)>>), TRUE),
        RegExp("cooldown", Lit("cooldown"), TRUE),
        RegExp("quota", Lit("quota"), TRUE) >>,
     extractors |-> <<>>],
    [category |-> "permission_needed",
     patterns |-> <<
        RegExp("permission denied", Lit("permission denied"), TRUE),
        RegExp("access denied", Lit("access denied"), TRUE),
        RegExp("unauthorized", Lit("unauthorized"), TRUE),
        RegExp("need(s)? (permission|access|credentials)",
               Cat(<<Lit("need"), Opt(Lit("s")), Lit(" "),
                     AltLits(<<"permission", "access", "credentials">>)>>),
               TRUE) >>,
     extractors |-> <<>>] >>

-----------------------------------------------------------------------------
(* Blocker detector                                                        *)

MinTextLength == 20

MinSentenceLength == 10

MaxReasonLength == 150

ReasonCut == 147

\* String.prototype.replace(re, "") for a regular expression with the g flag
\* whose matches are never empty.
RECURSIVE removeAll(_, _)
RECURSIVE RemoveFrom(_, _, _)
removeAll(re, s) == RemoveFrom(re, s, exec(re, s))

\* m is the first match of re in s.
RemoveFrom(re, s, m) ==
    IF ~m.found THEN s
    ELSE SubSeq(s, 1, m.from - 1) \o removeAll(re, SubSeq(s, m.to + 1, Len(s)))

CodeFence == RegExp("%%%[\\s\\S]*?%%%",
                    Cat(<<Lit("%%%"), LazyRep(NoneOf({}), 0, Inf), Lit("%%%")>>),
                    FALSE)

startsWith(s, prefix) ==
    Len(s) >= Len(prefix) /\ SubSeq(s, 1, Len(prefix)) = prefix

IsTableLine(line) == startsWith(trim(line), "|") \/ includes(line, "|---")

\* The text the patterns are matched against: code fences and table lines
\* removed.
cleanText(text) ==
    join(SelectSeq(splitLines(removeAll(CodeFence, text)),
                    LAMBDA line : ~IsTableLine(line)), "\n")

\* The sentence separators of extractBlockerReason: runs of . ! ? newline.
SentenceBreaks == {".", "!", "?", "\n"}

\* String.prototype.split(/[.!?\n]+/): a run of separators is one cut, so the
\* pieces between two adjacent separators (empty ones) are dropped.
SentencesAt(s, at) ==
    SelectSeq([k \in 1..(Len(at) + 1) |->
                  [text |-> PiecesAt(s, at)[k],
                   inRun |-> k > 1 /\ k <= Len(at) /\ at[k] = at[k - 1] + 1]],
              LAMBDA p : ~p.inRun)

splitSentences(s) ==
    SentencesAt(s, Ascending({i \in 1..Len(s) : Char(s, i) \in SentenceBreaks}))

BlockerKeywords == <<"need", "wait", "please", "blocked", "failed">>

LowerHasKeyword(lower) ==
    \E k \in 1..Len(BlockerKeywords) : includes(lower, BlockerKeywords[k])

HasBlockerKeyword(sentence) == LowerHasKeyword(toLowerCase(sentence))

CannedReason(category) ==
    CASE category = "funding_needed" -> "Insufficient funds - need additional SOL"
      [] category = "waiting_for_user" -> "Waiting for user action"
      [] category = "external_action" -> "Requires manual/browser action"
      [] category = "rate_limited" -> "Rate limited - need to wait"
      [] category = "permission_needed" -> "Permission or access needed"
      [] OTHER -> "Blocked - needs external intervention"

\* The reason without the cut: the whole sentence
ReasonOfUncut(trimmed) == trimmed

\* The reason made of a sentence with a blocker keyword
ReasonOf(trimmed) ==
    IF Len(trimmed) <= MaxReasonLength THEN trimmed
    ELSE sliceTo(trimmed, ReasonCut) \o "..."

\* keyed are the sentences with a blocker keyword, in order.
ReasonFrom(keyed, category) ==
    IF keyed # <<>> THEN ReasonOf(trim(keyed[1].text)) ELSE CannedReason(category)

extractBlockerReason(text, category) ==
    ReasonFrom(SelectSeq(SelectSeq(splitSentences(text),
                                   LAMBDA s : Len(trim(s.text)) > MinSentenceLength),
                         LAMBDA s : HasBlockerKeyword(s.text)),
               category)

\* primaryCategory before any pattern matched
NoCategory == "undefined"

\* The extractors from the i-th on, run on the text: a field is set when its
\* extractor matches and captures something (match && match[1]).
SetField(context, field, match) ==
    IF match.found /\ match.cap # "" THEN (field :> match.cap) @@ context
    ELSE context

RECURSIVE ExtractLoop(_, _, _, _)
ExtractLoop(extractors, i, text, context) ==
    IF i > Len(extractors) THEN context
    ELSE ExtractLoop(extractors, i + 1, text,
                     SetField(context, extractors[i].field,
                              exec(extractors[i].pattern, text)))

\* The body of the inner loop of detectBlocker for one pattern of a category.
OnPattern(entry, pattern, text, acc) ==
    IF test(pattern, text)
    THEN [matchedPatterns |->
              Append(acc.matchedPatterns, entry.category \o ":" \o pattern.source),
          primaryCategory |->
              IF acc.primaryCategory = NoCategory THEN entry.category
              ELSE acc.primaryCategory,
          extractedContext |->
              ExtractLoop(entry.extractors, 1, text, acc.extractedContext)]
    ELSE acc

\* The inner loop of detectBlocker from the j-th pattern of a category on.
RECURSIVE PatternLoop(_, _, _, _)
PatternLoop(entry, j, text, acc) ==
    IF j > Len(entry.patterns) THEN acc
    ELSE PatternLoop(entry, j + 1, text, OnPattern(entry, entry.patterns[j], text, acc))

\* The matching loop of detectBlocker over the categories from the k-th on:
\* the locals matchedPatterns, primaryCategory and extractedContext.
RECURSIVE MatchLoop(_, _, _)
MatchLoop(text, k, acc) ==
    IF k > Len(BLOCKER_PATTERNS) THEN acc
    ELSE MatchLoop(text, k + 1, PatternLoop(BLOCKER_PATTERNS[k], 1, text, acc))

\* The locals before the loop
NoneMatched ==
    [matchedPatterns |-> <<>>, primaryCategory |-> NoCategory,
     extractedContext |-> <<>>]

\* The locals after the loop over a cleaned text
Matched(cleaned) == [locals |-> MatchLoop(cleaned, 1, NoneMatched), text |-> cleaned]

\* The locals computed on the text as it came, fences and tables included
ClassifyUnfiltered(text) ==
    IF text = "" \/ Len(text) < MinTextLength
    THEN [locals |-> NoneMatched, text |-> text]
    ELSE Matched(text)

\* The locals of detectBlocker when it decides, with the text they were
\* computed on: nothing was matched when the text is too short to be looked
\* at, and the patterns see the text without code fences and table lines.
Classify(text) ==
    IF text = "" \/ Len(text) < MinTextLength
    THEN [locals |-> NoneMatched, text |-> text]
    ELSE Matched(cleanText(text))

\* isStrongSignal with the count of the matches left out
StrongWithoutCount(locals, sessionEnded) ==
    sessionEnded \/ locals.primaryCategory = "funding_needed"

\* isStrongSignal with the funding path left out
StrongWithoutFunding(locals, sessionEnded) ==
    sessionEnded \/ Len(locals.matchedPatterns) >= 2

isStrongSignal(locals, sessionEnded) ==
    LET isFundingRelated == locals.primaryCategory = "funding_needed"
        hasMultipleMatches == Len(locals.matchedPatterns) >= 2
    IN  sessionEnded \/ hasMultipleMatches \/ isFundingRelated

\* The decision without the test of the strength of the signal
ReportAnyMatch(classified, sessionEnded) ==
    LET locals == classified.locals
    IN  IF locals.matchedPatterns = <<>> THEN undefined
        ELSE [reason |-> extractBlockerReason(classified.text, locals.primaryCategory),
              lastMessage |-> classified.text,
              matchedPatterns |-> locals.matchedPatterns,
              extractedContext |-> locals.extractedContext]

\* The decision of detectBlocker on its locals: BlockerInfo or undefined. An
\* extractedContext without fields stands for the undefined the source
\* returns for it.
Report(classified, sessionEnded) ==
    LET locals == classified.locals
    IN  IF locals.matchedPatterns = <<>> THEN undefined
        ELSE IF ~isStrongSignal(locals, sessionEnded) THEN undefined
        ELSE [reason |-> extractBlockerReason(classified.text, locals.primaryCategory),
              lastMessage |-> classified.text,
              matchedPatterns |-> locals.matchedPatterns,
              extractedContext |-> locals.extractedContext]

detectBlocker(text, sessionEnded) == Report(Classify(text), sessionEnded)

-----------------------------------------------------------------------------
(* End-of-session scanning                                                 *)

DefaultLastNEvents == 2

COMPLETION_SIGNALS == <<
    RegExp("~.*ready", Cat(<<Lit("~"), Star(Dot), Lit("ready")>>), TRUE),
    RegExp("^.*ready", Cat(<<Lit("^"), Star(Dot), Lit("ready")>>), TRUE),
    RegExp("all.*complete", Cat(<<Lit("all"), Star(Dot), Lit("complete")>>), TRUE),
    RegExp("finished", Lit("finished"), TRUE),
    RegExp("done!", Lit("done!"), TRUE),
    RegExp("successfully", Lit("successfully"), TRUE) >>

hasCompletionSignal(text) ==
    \E k \in 1..Len(COMPLETION_SIGNALS) : test(COMPLETION_SIGNALS[k], text)

ListMarker == RegExp("^[-*+]\\s",
                     Cat(<<Bol, OneOf({"-", "*", "+"}), OneOf(WhiteSpace)>>), FALSE)

NumberedMarker == RegExp("^\\d+\\.\\s",
                         Cat(<<Bol, Plus(OneOf(DigitChars)), Lit("."),
                               OneOf(WhiteSpace)>>), FALSE)

ListHeader ==
    RegExp("^(Tasks?|Criteria|Signals?|Examples?|Quantitative|Qualitative).*:",
           Cat(<<Bol,
                 Alt(<<Cat(<<Lit("task"), Opt(Lit("s"))>>), Lit("criteria"),
                       Cat(<<Lit("signal"), Opt(Lit("s"))>>),
                       Cat(<<Lit("example"), Opt(Lit("s"))>>),
                       Lit("quantitative"), Lit("qualitative")>>),
                 Star(Dot), Lit(":")>>), TRUE)

IsListLine(trimmed) ==
    \/ test(ListMarker, trimmed)
    \/ test(NumberedMarker, trimmed)
    \/ test(ListHeader, trimmed)

HasListLine(lines) == \E k \in 1..Len(lines) : IsListLine(trim(lines[k]))

isLikelyListItem(text) == HasListLine(splitLines(text))

-----------------------------------------------------------------------------
(* The assistant messages of the model.                                     *)

\* Funding scenario of the design: an amount after "need", no pattern words
FundingScenario == "Need 2 SOL to proceed, current balance 0.1 SOL"

\* The same need written the way the funding patterns and extractors expect
FundingReport == "Airdrop failed: insufficient SOL. Need 2.5 SOL, balance: 0.1 SOL"

ListScenario == "- Tasks where funding was needed: none"

ProceedQuestion == "Should I proceed with deleting the temp files?"

LonePlease == "Please run the migration script before continuing"

SingleFunding == "The devnet faucet is not responding right now"

CompleteButFunding == "All tasks complete. You need to claim SOL from the faucet"

EmptyItemThenNeed == "- \nYou need to claim SOL from the faucet"

\* Patterns in a code fence and in a table line, two more outside of them
FencedAndDenied == "%%%\nplease claim sol from faucet\n%%%\n| quota | 5 |\nPermission denied, you need to log in again"

\* A sentence of exactly ten characters with a blocker keyword
TenCharNeed == "Need funds. The devnet faucet is not responding right now"

\* A second sentence of 181 characters with a blocker keyword
LongNeed == "Deploy halted. You need to claim SOL from the faucet before the deployment of the escrow program can go on because the wallet that pays the transaction fees on devnet has nothing left in it at all"

Texts ==
    { FundingScenario, FundingReport, ListScenario, ProceedQuestion, LonePlease,
      "insufficient funds",
      SingleFunding,
      "Permission denied: you need to authenticate manually",
      "Open the browser to view the results page",
      CompleteButFunding,
      "~ Build is ready",
      "- You need to claim SOL from the faucet",
      EmptyItemThenNeed,
      LongNeed,
      TenCharNeed,
      FencedAndDenied,
      "Examples: you need to fund the wallet manually",
      "%%%\nplease run faucet\n%%%\nThe example output is shown above",
      "| faucet | down |\nThe status table is shown above" }

\* Everything the pipeline computes from one message text.
Facts(text) ==
    [of |-> text,
     locals |-> Classify(text).locals,
     strict |-> detectBlocker(text, FALSE),
     ended |-> detectBlocker(text, TRUE),
     completion |-> hasCompletionSignal(text),
     listLike |-> isLikelyListItem(text)]

\* The facts of the messages of the model, computed once.
TextFacts == {Facts(t) : t \in Texts}

OnText(text) ==
    IF text \in Texts THEN CHOOSE f \in TextFacts : f.of = text ELSE Facts(text)

\* Array.prototype.slice(-n): slice(-0) is slice(0), the whole array
sliceLast(seq, n) ==
    IF n = 0 \/ n >= Len(seq) THEN seq
    ELSE SubSeq(seq, Len(seq) - n + 1, Len(seq))

IsAssistantText(e) == e.type = "assistant_message" /\ e.text # ""

recentAssistantMessages(events, lastNEvents) ==
    sliceLast(SelectSeq(events, IsAssistantText), lastNEvents)

\* The scan of checkEventsForBlocker from message i of recent downwards: the
\* first blocker found, with the place in recent of the message it came from
\* (from = 0 with no blocker).
RECURSIVE ScanFrom(_, _)
RECURSIVE ScanStep(_, _, _)
ScanFrom(recent, i) ==
    IF i = 0 THEN [blocker |-> undefined, from |-> 0]
    ELSE ScanStep(recent, i, OnText(recent[i].text))

\* The body of the loop going on to the earlier messages after a hit, and
\* preferring what it finds there
ScanStepPreferringEarlier(recent, i, facts) ==
    IF facts.listLike THEN ScanFrom(recent, i - 1)
    ELSE IF facts.ended # undefined /\ ScanFrom(recent, i - 1).blocker = undefined
    THEN [blocker |-> facts.ended, from |-> i]
    ELSE ScanFrom(recent, i - 1)

\* The body of the loop on message i: facts.listLike is isLikelyListItem of
\* its text, facts.ended is detectBlocker(text, true).
ScanStep(recent, i, facts) ==
    IF facts.listLike THEN ScanFrom(recent, i - 1)
    ELSE IF facts.ended # undefined THEN [blocker |-> facts.ended, from |-> i]
    ELSE ScanFrom(recent, i - 1)

\* The scan without the completion check on the last message
ScanWithoutVeto(recent) == ScanFrom(recent, Len(recent))

\* The scan with the completion check on every scanned message
ScanVetoedByAny(recent) ==
    IF \E i \in 1..Len(recent) : OnText(recent[i].text).completion
    THEN [blocker |-> undefined, from |-> 0]
    ELSE ScanFrom(recent, Len(recent))

\* checkEventsForBlocker on the messages it scans; OnText(text).completion
\* is hasCompletionSignal(text).
ScanRecent(recent) ==
    IF recent # <<>> /\ OnText(recent[Len(recent)].text).completion
    THEN [blocker |-> undefined, from |-> 0]
    ELSE ScanFrom(recent, Len(recent))

ScanEvents(events, lastNEvents) ==
    ScanRecent(recentAssistantMessages(events, lastNEvents))

checkEventsForBlocker(events, lastNEvents) == ScanEvents(events, lastNEvents).blocker

-----------------------------------------------------------------------------
(* Realtime interventor (Level 3)                                          *)

MaxRecentMessages == 5

MaxMessageChars == 300

\* The fixed end of the context the oracle is given; "->" stands for the
\* arrow of the source.
InterventionTask ==
    join(<<"## Your Task",
           "",
           "You are DyDo, monitoring a Claude Code session in real-time. Claude Code appears to be waiting for something.",
           "",
           "**Can you handle this automatically?**",
           "",
           "Examples you CAN handle:",
           "- \"Should I proceed with this change?\" -> \"Yes, proceed\"",
           "- \"Which approach do you prefer?\" -> Make a decision based on project context",
           "- \"Do you want me to continue?\" -> \"Yes, continue\"",
           "",
           "Examples you CANNOT handle:",
           "- \"You need to fund this wallet: 0x...\" -> User must do this",
           "- \"The build failed, manual fix needed\" -> User must debug",
           "- \"Rate limited, wait 5 minutes\" -> Must wait",
           "",
           "**Respond in JSON:**",
           "%%%json",
           "{",
           "  \"canHandle\": true/false,",
           "  \"response\": \"Your response to Claude Code (if canHandle is true)\",",
           "  \"reasoning\": \"Why you can/cannot handle this\"",
           "}",
           "%%%">>, "\n")

buildInterventionContext(blocker, questionText, sessionContext) ==
    LET shown == sliceLast(SelectSeq(sessionContext.recentEvents, IsAssistantText),
                           MaxRecentMessages)
        recentMessages ==
            join([i \in 1..Len(shown) |->
                     "[" \o ToString(i) \o "] "
                         \o sliceTo(shown[i].text, MaxMessageChars) \o "..."],
                 "\n\n")
    IN  trim(join(<<"",
                    "## Real-Time Intervention Request",
                    "",
                    "**Project:** " \o sessionContext.projectName,
                    "**Session ID:** " \o sessionContext.sessionId,
                    "",
                    "**Claude Code just said:**",
                    "\"" \o questionText \o "\"",
                    "",
                    "**Detected blocker pattern:** " \o blocker.reason,
                    "",
                    "**Recent conversation (last 5 messages):**",
                    recentMessages,
                    "",
                    InterventionTask,
                    "">>, "\n"))

YesNoQuestion ==
    RegExp("should i proceed|do you want|shall i continue",
           AltLits(<<"should i proceed", "do you want", "shall i continue">>), TRUE)

FundingIssue ==
    RegExp("fund|wallet|balance|sol",
           AltLits(<<"fund", "wallet", "balance", "sol">>), TRUE)

\* The heuristic decision: response is "" where the source leaves it out.
invokeDyDoIntervention(contextSummary) ==
    IF test(YesNoQuestion, contextSummary)
    THEN [canHandle |-> TRUE, response |-> "Yes, please proceed.",
          reasoning |-> "Simple yes/no question - DyDo can approve"]
    ELSE IF test(FundingIssue, contextSummary)
    THEN [canHandle |-> FALSE, response |-> "",
          reasoning |-> "Funding issue requires user action"]
    ELSE [canHandle |-> FALSE, response |-> "",
          reasoning |-> "Uncertain - escalating to user for safety"]

-----------------------------------------------------------------------------
(* Blocker assessor (Level 2)                                              *)

MaxAssessedMessages == 10

MaxAssessedChars == 500

\* The fixed end of the context assessBlocker gives the oracle.
AssessmentTask ==
    join(<<"## Your Task",
           "",
           "You are DyDo, reviewing a Claude Code session that pattern matching flagged as \"possibly blocked\".",
           "",
           "**Analyze the context above and determine:**",
           "",
           "1. **Is this a REAL blocker?**",
           "   - Real blocker: Claude Code needs user/external intervention to continue",
           "   - False positive: Pattern matching triggered on list items, examples, or completed tasks",
           "",
           "2. **Confidence level (0.0 to 1.0)**",
           "   - 0.9-1.0: Very confident in your judgment",
           "   - 0.7-0.8: Confident but some uncertainty",
           "   - 0.5-0.6: Uncertain, could go either way",
           "   - 0.0-0.4: Low confidence",
           "",
           "3. **Reasoning:** Why did you reach this conclusion?",
           "",
           "4. **(Level 3) Can you handle this automatically?**",
           "   - If yes, provide the response you'd send to Claude Code",
           "",
           "**Respond in JSON format:**",
           "%%%json",
           "{",
           "  \"isRealBlocker\": true/false,",
           "  \"confidence\": 0.0-1.0,",
           "  \"reasoning\": \"Your analysis here\",",
           "  \"canAutoHandle\": true/false,",
           "  \"autoResponse\": \"Your response to Claude Code (if canAutoHandle is true)\"",
           "}",
           "%%%">>, "\n")

\* The keys of an extractedContext in the order they were first set: the
\* order of the extractors.
ContextFields == <<"wallet", "needed", "current">>

\* JSON.stringify(extractedContext, null, 2); the values are digits, dots and
\* base-58 characters, which JSON leaves as they are.
stringify(extractedContext) ==
    LET keys == SelectSeq(ContextFields, LAMBDA f : f \in DOMAIN extractedContext)
    IN  IF keys = <<>> THEN "{}"
        ELSE "{\n"
             \o join([i \in 1..Len(keys) |->
                         "  \"" \o keys[i] \o "\": \""
                             \o extractedContext[keys[i]] \o "\""],
                     ",\n")
             \o "\n}"

\* An extractedContext without keys is undefined in the BlockerInfo.
buildContextSummary(blocker, sessionEvents, sessionStatus) ==
    LET shown == sliceLast(SelectSeq(sessionEvents, IsAssistantText),
                           MaxAssessedMessages)
        recentMessages ==
            join([i \in 1..Len(shown) |->
                     "[" \o ToString(i) \o "] "
                         \o sliceTo(shown[i].text, MaxAssessedChars) \o "..."],
                 "\n\n")
        extractedCtx ==
            IF DOMAIN blocker.extractedContext # {}
            THEN "\nExtracted Context:\n" \o stringify(blocker.extractedContext)
            ELSE ""
    IN  trim(join(<<"",
                    "## Blocker Detection Context",
                    "",
                    "**Detected Reason:** " \o blocker.reason,
                    "**Matched Patterns:** " \o join(blocker.matchedPatterns, ", "),
                    "**Session Status:** " \o sessionStatus \o extractedCtx,
                    "",
                    "**Recent Messages (last 10):**",
                    recentMessages,
                    "",
                    AssessmentTask,
                    "">>, "\n"))

\* "~" stands for the check mark of the source.
AssessedComplete ==
    RegExp("~.*ready|all.*complete|finished|done!",
           Alt(<<Cat(<<Lit("~"), Star(Dot), Lit("ready")>>),
                 Cat(<<Lit("all"), Star(Dot), Lit("complete")>>),
                 Lit("finished"), Lit("done!")>>), TRUE)

AssessedListContext ==
    RegExp("Tasks? where|Criteria|Signals?|Examples?|Quantitative|Qualitative",
           Alt(<<Cat(<<Lit("task"), Opt(Lit("s")), Lit(" where")>>), Lit("criteria"),
                 Cat(<<Lit("signal"), Opt(Lit("s"))>>),
                 Cat(<<Lit("example"), Opt(Lit("s"))>>),
                 Lit("quantitative"), Lit("qualitative")>>), TRUE)

AssessedFunding ==
    RegExp("need(s|ed)?\\s+(\\d+(?:\\.\\d+)?)\\s*sol|insufficient.*balance",
           Alt(<<Cat(<<Lit("need"), Opt(AltLits(<<"s", "ed">>)),
                       Plus(OneOf(WhiteSpace)), Plus(OneOf(DigitChars)),
                       Opt(Cat(<<Lit("."), Plus(OneOf(DigitChars))>>)),
                       Star(OneOf(WhiteSpace)), Lit("sol")>>),
                 Cat(<<Lit("insufficient"), Star(Dot), Lit("balance")>>)>>), TRUE)

\* A BlockerAssessment; confidence is the decimal literal of the source.
Assessed(isRealBlocker, confidence, reasoning) ==
    [isRealBlocker |-> isRealBlocker, confidence |-> confidence,
     reasoning |-> reasoning]

\* The heuristic assessment
invokeDyDoAssessment(contextSummary) ==
    IF test(AssessedComplete, contextSummary)
    THEN Assessed(FALSE, "0.9",
                  "Detected completion signal (~ ready / all complete). This is a false positive.")
    ELSE IF test(AssessedListContext, contextSummary)
    THEN Assessed(FALSE, "0.85",
                  "Detected list/criteria context. The pattern match is likely from documentation or analysis, not a real blocker.")
    ELSE IF test(AssessedFunding, contextSummary)
    THEN Assessed(TRUE, "0.9",
                  "Detected funding/balance issue. This is a real blocker.")
    ELSE Assessed(TRUE, "0.6",
                  "Unable to determine with high confidence. Defaulting to real blocker (conservative).")

-----------------------------------------------------------------------------
(* Planning requests                                                       *)

\* String.prototype.replace(/"/g, '\\"')
escapeQuotes(task) ==
    join([i \in 1..Len(task) |->
             IF Char(task, i) = "\"" THEN "\\\"" ELSE Char(task, i)], "")

\* A field the caller left out is "" (a string), 0 (threadId), FALSE (quick)
\* or undefined (chatContext).
ProjectSpec(params) ==
    IF params.worktree # "" THEN params.project \o " @" \o params.worktree
    ELSE params.project

buildQuickStartRequest(params) ==
    join(<<"[Claude Code Quick Start]",
           "",
           "Project: " \o ProjectSpec(params),
           "Task: " \o (IF params.task # "" THEN params.task ELSE "Continue working"),
           "",
           "Start a Claude Code session immediately with this task.",
           "Use the claude_code_start tool with the task as the prompt.">>, "\n")

\* "<-" stands for the arrow of the source.
buildResumeRequest(params) ==
    join(<<"[Claude Code Resume Request]",
           "",
           "**CRITICAL RULES:**",
           "1. You MUST call %claude_code_start% tool immediately",
           "2. You MUST use EXACTLY this resumeToken: \"" \o params.resumeToken \o "\"",
           "3. Do NOT respond with text messages",
           "",
           "Project: " \o (IF params.project # "" THEN params.project ELSE "(from token)"),
           "User said: \"" \o (IF params.task # "" THEN params.task ELSE "continue") \o "\"",
           "",
           "## Required Tool Call",
           "Call %claude_code_start% with these EXACT values:",
           "- project: \"" \o params.project \o "\"",
           "- resumeToken: \"" \o params.resumeToken \o "\" <- MUST USE THIS EXACT TOKEN",
           "- prompt: <add project context to user's request>">>
         \o (IF params.chatContext # undefined
             THEN <<"- chatId: \"" \o params.chatContext.chatId \o "\"">>
             ELSE <<>>)
         \o (IF params.chatContext # undefined /\ params.chatContext.threadId # 0
             THEN <<"- threadId: " \o ToString(params.chatContext.threadId)>>
             ELSE <<>>)
         \o <<"",
              "**WARNING:** If you omit resumeToken or use a different value, it will start a NEW session instead of resuming. The user wants to CONTINUE their existing session.">>,
         "\n")

buildFullPlanningRequest(params) ==
    IF params.task = ""
    THEN join(<<"[Claude Code Request]",
                "Project: " \o ProjectSpec(params),
                "",
                "User wants to start a Claude Code session but didn't specify a task.",
                "Ask them what they want to work on.">>, "\n")
    ELSE join(<<"[Claude Code Start Request]",
                "",
                "**CRITICAL: You MUST call the %claude_code_start% tool. Do NOT respond with text messages.**",
                "",
                "Project: " \o ProjectSpec(params),
                "User said: \"" \o params.task \o "\"",
                "",
                "## Your Task",
                "1. BRIEFLY check project context (use %project_context% tool)",
                "2. Call %claude_code_start% with enriched instructions",
                "",
                "## Tool Call (REQUIRED)",
                "%%%",
                "claude_code_start({",
                "  project: \"" \o params.project \o "\",">>
              \o (IF params.worktree # ""
                  THEN <<"  worktree: \"" \o params.worktree \o "\",">> ELSE <<>>)
              \o <<"  prompt: \"<ENRICHED INSTRUCTIONS - add project context>\",",
                   "  originalTask: \"" \o escapeQuotes(params.task) \o "\",">>
              \o (IF params.chatContext # undefined
                  THEN <<"  chatId: \"" \o params.chatContext.chatId \o "\",">>
                  ELSE <<>>)
              \o (IF params.chatContext # undefined /\ params.chatContext.threadId # 0
                  THEN <<"  threadId: " \o ToString(params.chatContext.threadId) \o ",">>
                  ELSE <<>>)
              \o (IF params.chatContext # undefined /\ params.chatContext.accountId # ""
                  THEN <<"  accountId: \"" \o params.chatContext.accountId \o "\",">>
                  ELSE <<>>)
              \o <<"})",
                   "%%%",
                   "",
                   "**Rules:**",
                   "- DO NOT respond with text messages - call the tool",
                   "- Add context from project (phase, blockers, etc.) to the prompt",
                   "- Only ask clarifying question if TRULY ambiguous (rarely needed)">>,
              "\n")

buildPlanningRequest(params) ==
    IF params.quick THEN buildQuickStartRequest(params)
    ELSE IF params.action = "resume" THEN buildResumeRequest(params)
    ELSE buildFullPlanningRequest(params)

\* No request has been asked for
NotBuilt == [built |-> FALSE, params |-> undefined, request |-> ""]

\* The parameters of the model: both actions, with and without project, task,
\* resume token, worktree, --quick and chat context
PlanningParams ==
    [action : {"start", "resume"},
     project : {"", "my-project"},
     task : {"", "continue with the tests", "say \"done\" at the end"},
     resumeToken : {"", "9b2e4c1a-7d3f-4e8a-b5c6-1f2a3b4c5d6e",
                    "0f8fad5b-d9cb-469f-a165-70867728950e"},
     worktree : {"", "feature-x"},
     quick : BOOLEAN,
     chatContext : {undefined} \cup [chatId : {"-1001234567890"}, threadId : {0, 42},
                                     accountId : {""}]]

PlanningCalls == {[built |-> FALSE, params |-> p, request |-> ""] : p \in PlanningParams}

-----------------------------------------------------------------------------
(* Session/bubble router: the textual fallback                              *)

null == [null |-> TRUE]

TokenLength == 36

TokenChars == CharsOf("abcdef0123456789-")

ResumeCommand ==
    RegExp("claude --resume ([a-f0-9-]{36})",
           Cat(<<Lit("claude --resume "),
                 Group(Rep(OneOf(TokenChars), TokenLength, TokenLength))>>), FALSE)

CtxLine ==
    RegExp("ctx:\\s*([^\\n]+)",
           Cat(<<Lit("ctx:"), Star(OneOf(WhiteSpace)), Group(Plus(NoneOf({"\n"})))>>),
           FALSE)

StatusHeader ==
    RegExp("\\*\\*(?:working|done)\\*\\*\\s*#\\s*([^#]+)\\s*#",
           Cat(<<Lit("**"), AltLits(<<"working", "done">>), Lit("**"),
                 Star(OneOf(WhiteSpace)), Lit("#"), Star(OneOf(WhiteSpace)),
                 Group(Plus(NoneOf({"#"}))), Star(OneOf(WhiteSpace)), Lit("#")>>),
           FALSE)

\* messageText is "" for a message without text (undefined is falsy like "").
parseResumeTokenFromMessage(messageText) ==
    IF messageText = "" THEN null
    ELSE LET resumeMatch == exec(ResumeCommand, messageText)
         IN  IF ~resumeMatch.found THEN null
             ELSE LET ctxMatch == exec(CtxLine, messageText)
                      headerMatch == exec(StatusHeader, messageText)
                  IN  [resumeToken |-> resumeMatch.cap,
                       projectName |->
                           IF ctxMatch.found THEN trim(ctxMatch.cap)
                           ELSE IF headerMatch.found THEN trim(headerMatch.cap)
                           ELSE "unknown"]

-----------------------------------------------------------------------------
(* State                                                                   *)

VARIABLES
    sessionLog,         \* the events of the agent session, in arrival order
    sessionState,       \* "running" or "completed"
    endOfSession,       \* what checkEventsForBlocker did when the session ended
    realtime,           \* checkForRealtimeIntervention on the latest event
    oracleCalls,        \* how many times the intervention oracle was invoked
    bubbleIndex,        \* replied-to message id -> bubble info, or null
    liveSessions,       \* session id -> is it registered, does it take input
    forcedResumeToken,  \* chat id -> the forced resume token ("" for none)
    dydoCommands,       \* what logDyDoCommand was given
    sessionInputs,      \* what sendInput was given, and whether it was delivered
    chatMessages,       \* what api.sendMessage was given
    bubbleReply,        \* the chat reply the message processor is handling
    normalHandling,     \* the texts handed on to normal message handling
    contextBuilt,       \* for each of them: a context was built and it was dispatched
    repliesSeen,        \* how many chat replies have arrived
    assessment,         \* assessBlocker on the blocker found at the end of the session
    resumes,            \* what DyDo resumed for each orchestration request
    autoInputs,         \* the intervention responses given to sendInput
    callbackAnswers,    \* what api.answerCallbackQuery was given
    thinking,           \* a call of resolveThinkingDefault and its result
    reauth,             \* a run of the re-authentication script
    callback,           \* handleClaudeCodeCallback on the buttons pressed so far
    planning            \* a call of buildPlanningRequest

detectorVars == <<sessionLog, sessionState, endOfSession, realtime, oracleCalls>>

routerVars == <<bubbleIndex, liveSessions, forcedResumeToken, dydoCommands,
                sessionInputs, chatMessages, bubbleReply, normalHandling, contextBuilt,
                repliesSeen>>

toolVars == <<thinking, reauth, callback, planning>>

oracleVars == <<assessment, resumes, autoInputs, callbackAnswers, toolVars>>

vars == <<sessionLog, sessionState, endOfSession, realtime, oracleCalls,
          bubbleIndex, liveSessions, forcedResumeToken, dydoCommands,
          sessionInputs, chatMessages, bubbleReply, normalHandling, contextBuilt, repliesSeen,
          assessment, resumes, autoInputs, callbackAnswers, thinking, reauth,
          callback, planning>>

-----------------------------------------------------------------------------
(* The agent session and its two detection paths                           *)

MaxEvents == 2

MaxLastN == 2

AssistantMessage(t) == [type |-> "assistant_message", text |-> t]

ToolUse == [type |-> "tool_use", text |-> ""]

\* What the agent can emit: a message of the model, a message without text,
\* an event that is no message.
Events == {AssistantMessage(t) : t \in Texts \cup {""}} \cup {ToolUse}

SessionContext(recentEvents) ==
    [sessionId |-> "s1", projectName |-> "my-project", recentEvents |-> recentEvents]

NotIntervened(reasoning) ==
    [intervened |-> FALSE, response |-> "", reasoning |-> reasoning]

\* checkForRealtimeIntervention has returned result without asking.
Returned(event, result) ==
    [pc |-> "done", event |-> event, suspected |-> undefined,
     decision |-> undefined, result |-> result]

\* checkForRealtimeIntervention from the result of detectBlocker to its await:
\* it has returned (pc "done") or waits for the decision it asked for (pc
\* "asking").
Suspect(event, sessionContext, suspectedBlocker) ==
    IF suspectedBlocker = undefined
    THEN Returned(event, NotIntervened("No blocker pattern detected"))
    ELSE [pc |-> "asking", event |-> event, suspected |-> suspectedBlocker,
          decision |-> invokeDyDoIntervention(
                           buildInterventionContext(
                               suspectedBlocker, event.text, sessionContext)),
          result |-> NotIntervened("")]

\* The realtime check calling detectBlocker(text, true)
checkAsAtSessionEnd(event, sessionContext) ==
    IF event.type # "assistant_message" \/ event.text = ""
    THEN Returned(event, NotIntervened("Not an assistant message"))
    ELSE Suspect(event, sessionContext, OnText(event.text).ended)

\* checkForRealtimeIntervention up to its await; OnText(text).strict is
\* detectBlocker(text, false).
checkForRealtimeIntervention(event, sessionContext) ==
    IF event.type # "assistant_message" \/ event.text = ""
    THEN Returned(event, NotIntervened("Not an assistant message"))
    ELSE Suspect(event, sessionContext, OnText(event.text).strict)

\* The result going by the verdict alone, whether or not a response came
InterventionResultOnVerdict(intervention) ==
    IF intervention.canHandle
    THEN [intervened |-> TRUE, response |-> intervention.response,
          reasoning |-> intervention.reasoning]
    ELSE NotIntervened(intervention.reasoning)

\* checkForRealtimeIntervention after its await
InterventionResult(intervention) ==
    IF intervention.canHandle /\ intervention.response # ""
    THEN [intervened |-> TRUE, response |-> intervention.response,
          reasoning |-> intervention.reasoning]
    ELSE NotIntervened(intervention.reasoning)

\* The agent emits an event; the realtime check runs on it.
AgentEmit(e) ==
    /\ sessionState = "running"
    /\ Len(sessionLog) < MaxEvents
    /\ realtime.pc # "asking"
    /\ sessionLog' = Append(sessionLog, e)
    /\ realtime' = checkForRealtimeIntervention(e, SessionContext(Append(sessionLog, e)))
    /\ oracleCalls' = IF realtime'.pc = "asking" THEN oracleCalls + 1 ELSE oracleCalls
    /\ UNCHANGED <<sessionState, endOfSession, routerVars, oracleVars>>

\* askDyDoForIntervention returns the decision of the oracle.
OracleAnswers ==
    /\ realtime.pc = "asking"
    /\ realtime' = [realtime EXCEPT !.pc = "done",
                                    !.result = InterventionResult(realtime.decision)]
    /\ UNCHANGED <<sessionLog, sessionState, endOfSession, oracleCalls, routerVars, oracleVars>>

\* What DyDo can answer once it is invoked in place of the heuristic: it can
\* handle the situation or not, with a response or without one.
DyDoDecisions ==
    {[canHandle |-> c, response |-> r, reasoning |-> "DyDo has looked at the session"] :
        c \in BOOLEAN, r \in {"", "Use the staging database."}}

\* askDyDoForIntervention returns a decision DyDo made itself.
DyDoDecides(decision) ==
    /\ realtime.pc = "asking"
    /\ realtime' = [realtime EXCEPT !.pc = "done", !.decision = decision,
                                    !.result = InterventionResult(decision)]
    /\ UNCHANGED <<sessionLog, sessionState, endOfSession, oracleCalls, routerVars,
                   oracleVars>>

\* The invocation of the oracle throws: askDyDoForIntervention catches.
OracleFails ==
    /\ realtime.pc = "asking"
    /\ LET fallback == [canHandle |-> FALSE, response |-> "",
                        reasoning |-> "Intervention assessment failed, escalating to user"]
       IN  realtime' = [realtime EXCEPT !.pc = "done", !.decision = fallback,
                                        !.result = InterventionResult(fallback)]
    /\ UNCHANGED <<sessionLog, sessionState, endOfSession, oracleCalls, routerVars, oracleVars>>

\* The session ends and its events are checked for a blocker.
SessionEnds(lastNEvents) ==
    /\ sessionState = "running"
    /\ sessionState' = "completed"
    /\ endOfSession' = [called |-> TRUE, lastNEvents |-> lastNEvents,
                        recent |-> recentAssistantMessages(sessionLog, lastNEvents),
                        scan |-> ScanEvents(sessionLog, lastNEvents)]
    /\ UNCHANGED <<sessionLog, realtime, oracleCalls, routerVars, oracleVars>>

\* assessBlocker has not been called.
NotAssessed ==
    [pc |-> "idle", blocker |-> undefined, sessionStatus |-> "",
     pending |-> undefined, threw |-> FALSE, result |-> undefined]

\* The status the session is assessed in
SessionStatuses == {"completed", "done"}

\* assessBlocker up to its await: the context is built and the assessment
\* asked for.
assessBlocker(blocker, sessionEvents, sessionStatus) ==
    [pc |-> "assessing", blocker |-> blocker, sessionStatus |-> sessionStatus,
     pending |-> invokeDyDoAssessment(
                     buildContextSummary(blocker, sessionEvents, sessionStatus)),
     threw |-> FALSE, result |-> undefined]

\* The blocker the end-of-session check found is handed to assessBlocker.
AssessBlocker(sessionStatus) ==
    /\ endOfSession.called
    /\ endOfSession.scan.blocker # undefined
    /\ assessment.pc = "idle"
    /\ assessment' = assessBlocker(endOfSession.scan.blocker, sessionLog, sessionStatus)
    /\ UNCHANGED <<detectorVars, routerVars, resumes, autoInputs, callbackAnswers, toolVars>>

\* The assessment arrives and assessBlocker returns it.
AssessmentReturns ==
    /\ assessment.pc = "assessing"
    /\ assessment' = [assessment EXCEPT !.pc = "done", !.result = assessment.pending]
    /\ UNCHANGED <<detectorVars, routerVars, resumes, autoInputs, callbackAnswers, toolVars>>

\* assessBlocker without its catch: the error gets out and nothing is returned
AssessmentFailsThrowing ==
    /\ assessment.pc = "assessing"
    /\ assessment' = [assessment EXCEPT !.pc = "done", !.threw = TRUE]
    /\ UNCHANGED <<detectorVars, routerVars, resumes, autoInputs, callbackAnswers, toolVars>>

\* The invocation of the oracle throws: assessBlocker catches.
AssessmentFails ==
    /\ assessment.pc = "assessing"
    /\ assessment' =
          [assessment EXCEPT
             !.pc = "done", !.threw = TRUE,
             !.result = Assessed(TRUE, "0.5",
                                 "Assessment failed, defaulting to pattern matching result")]
    /\ UNCHANGED <<detectorVars, routerVars, resumes, autoInputs, callbackAnswers, toolVars>>

-----------------------------------------------------------------------------
(* Session/bubble router                                                   *)

MaxReplies == 2

ShortLength == 50

ShortCut == 47

ChatId == "42"

ExampleToken == "123e4567-e89b-12d3-a456-426614174000"

OtherToken == "0f8fad5b-d9cb-469f-a165-70867728950e"

StoredToken == "9b2e4c1a-7d3f-4e8a-b5c6-1f2a3b4c5d6e"

\* The texts of the chat messages a reply can point at; the id of a message
\* is its place. The first is the bubble text of the design's example.
ChatHistory ==
    << "**done** # my-project # 5m\n%claude --resume " \o ExampleToken
           \o "%\nctx: my-project @main",
       "**working** # api-server # 2m\nclaude --resume " \o OtherToken,
       "To continue run: claude --resume " \o ExampleToken,
       "Thanks, see you tomorrow",
       "claude --resume 123E4567-E89B-12D3-A456-426614174000\nctx: my-project @main",
       "ctx: \nclaude --resume " \o ExampleToken,
       "",
       "claude --resume " \o ExampleToken \o "\n**done** # web # 1m\nctx:" >>

MessageIds == 1..Len(ChatHistory)

\* The fallback parse of every message of the chat, computed once.
ParsedHistory ==
    {[of |-> ChatHistory[i], parsed |-> parseResumeTokenFromMessage(ChatHistory[i])] :
        i \in MessageIds}

Parsed(messageText) == (CHOOSE p \in ParsedHistory : p.of = messageText).parsed

SessionIds == {"s1", "s2"}

\* The bubbles the index starts with: the stored token of the first differs
\* from the token its text shows.
InitialBubbles ==
    [i \in MessageIds |->
        CASE i = 1 -> [sessionId |-> "s1",
                       bubble |-> [resumeToken |-> StoredToken,
                                   projectName |-> "my-project",
                                   workingDir |-> "/repos/my-project"]]
          [] i = 2 -> [sessionId |-> "s2",
                       bubble |-> [resumeToken |-> OtherToken,
                                   projectName |-> "api-server",
                                   workingDir |-> "/repos/api-server"]]
          [] OTHER -> null]

\* resolveProject finds these.
KnownProjects == {"my-project", "my-project @main", "api-server"}

LongReply ==
    "please rerun the failing integration tests and then fix the flaky one in the auth module"

\* The chat messages that arrive: replyTo is 0 and text "" where the message
\* has none; threadId is 0 outside a topic.
Replies ==
    {[replyTo |-> i, text |-> "yes, go ahead", threadId |-> 0] : i \in MessageIds}
    \cup {[replyTo |-> 1, text |-> LongReply, threadId |-> 7],
          [replyTo |-> 3, text |-> LongReply, threadId |-> 7],
          [replyTo |-> 0, text |-> "hello there", threadId |-> 0],
          [replyTo |-> 1, text |-> "", threadId |-> 0]}

isReplyToBubble(chatId, replyToMessageId) == bubbleIndex[replyToMessageId]

getSession(sessionId) == liveSessions[sessionId].registered

\* The result of sendInput
sendSessionInput(sessionId, text) ==
    liveSessions[sessionId].registered /\ liveSessions[sessionId].accepting

resolveProject(projectName) == projectName \in KnownProjects

setForcedResumeToken(token, chatId) == [forcedResumeToken EXCEPT ![chatId] = token]

short(text) ==
    IF Len(text) > ShortLength THEN sliceTo(text, ShortCut) \o "..." ELSE text

\* What logDyDoCommand is given
DyDoCommand(text, resumeToken, projectName) ==
    [prompt |-> text, resumeToken |-> resumeToken, short |-> short(text),
     project |-> projectName]

SentConfirmation(text) ==
    " Sent to Claude Code: \"" \o sliceTo(text, ShortLength)
        \o (IF Len(text) > ShortLength THEN "..." ELSE "") \o "\""

\* The request handleBubbleReply builds for a resume
ResumeOrchestration(msg, resumeToken, projectName) ==
    buildPlanningRequest(
        [action |-> "resume", project |-> projectName, task |-> msg.text,
         resumeToken |-> resumeToken, worktree |-> "", quick |-> FALSE,
         chatContext |-> [chatId |-> ChatId, threadId |-> msg.threadId,
                          accountId |-> ""]])

NoResult == [type |-> "none", orchestrationText |-> ""]

NotLive == [registered |-> FALSE, accepting |-> FALSE]

Idle ==
    [pc |-> "idle", msg |-> [replyTo |-> 0, text |-> "", threadId |-> 0],
     bubbleInfo |-> null, fallbackInfo |-> null, live |-> NotLive,
     result |-> NoResult,
     before |-> [forced |-> "", commands |-> 0, inputs |-> 0, chat |-> 0]]

\* A chat message arrives at the message processor: a reply with text goes to
\* handleBubbleReply (which first awaits its import), anything else straight
\* to normal handling.
Receive(msg) ==
    /\ bubbleReply.pc = "idle"
    /\ repliesSeen < MaxReplies
    /\ repliesSeen' = repliesSeen + 1
    /\ IF msg.replyTo # 0 /\ msg.text # ""
       THEN /\ bubbleReply' =
                  [Idle EXCEPT !.pc = "called", !.msg = msg,
                               !.before = [forced |-> forcedResumeToken[ChatId],
                                           commands |-> Len(dydoCommands),
                                           inputs |-> Len(sessionInputs),
                                           chat |-> Len(chatMessages)]]
            /\ UNCHANGED <<normalHandling, contextBuilt>>
       ELSE /\ normalHandling' = Append(normalHandling, msg.text)
            /\ \E context \in BOOLEAN : contextBuilt' = Append(contextBuilt, context)
            /\ bubbleReply' = Idle
    /\ UNCHANGED <<bubbleIndex, liveSessions, forcedResumeToken, dydoCommands,
                   sessionInputs, chatMessages, detectorVars, oracleVars>>

\* The fallback logging the command before it looks at what was parsed
FallbackLoggingFirst(msg, fallbackInfo, seen) ==
    /\ dydoCommands' =
          Append(dydoCommands,
                 IF fallbackInfo = null THEN DyDoCommand(msg.text, "", "unknown")
                 ELSE DyDoCommand(msg.text, fallbackInfo.resumeToken,
                                  fallbackInfo.projectName))
    /\ bubbleReply' =
          IF fallbackInfo = null
          THEN [seen EXCEPT !.pc = "returned",
                            !.result = [type |-> "not_bubble_reply",
                                        orchestrationText |-> ""]]
          ELSE [seen EXCEPT !.pc = "resolving", !.fallbackInfo = fallbackInfo]
    /\ UNCHANGED <<sessionInputs, chatMessages, forcedResumeToken>>

\* The bubble is not in the index: the textual fallback up to its await. seen
\* is the reply in hand with what the handler looked up.
FallbackReply(msg, fallbackInfo, seen) ==
    IF fallbackInfo = null
    THEN /\ bubbleReply' = [seen EXCEPT !.pc = "returned",
                                        !.result = [type |-> "not_bubble_reply",
                                                    orchestrationText |-> ""]]
         /\ UNCHANGED <<dydoCommands, sessionInputs, chatMessages, forcedResumeToken>>
    ELSE /\ dydoCommands' =
               Append(dydoCommands,
                      DyDoCommand(msg.text, fallbackInfo.resumeToken,
                                  fallbackInfo.projectName))
         /\ bubbleReply' = [seen EXCEPT !.pc = "resolving",
                                        !.fallbackInfo = fallbackInfo]
         /\ UNCHANGED <<sessionInputs, chatMessages, forcedResumeToken>>

\* The forwarding branch without its return: it falls through to the resume
ForwardedThenResumed(msg, seen) ==
    /\ chatMessages' = Append(chatMessages, SentConfirmation(msg.text))
    /\ forcedResumeToken' =
          setForcedResumeToken(seen.bubbleInfo.bubble.resumeToken, ChatId)
    /\ bubbleReply' =
          [seen EXCEPT !.pc = "returned",
                       !.result =
                           [type |-> "route_to_dydo",
                            orchestrationText |->
                                ResumeOrchestration(
                                    msg, seen.bubbleInfo.bubble.resumeToken,
                                    seen.bubbleInfo.bubble.projectName)]]

\* The input was written to the session: the confirmation is being sent.
Forwarded(msg, seen) ==
    /\ chatMessages' = Append(chatMessages, SentConfirmation(msg.text))
    /\ bubbleReply' = [seen EXCEPT !.pc = "sending"]
    /\ UNCHANGED forcedResumeToken

\* The resume preferring the token the text of the replied-to message shows
ReconstructedFromText(msg, bubbleInfo, seen) ==
    /\ forcedResumeToken' =
          setForcedResumeToken(
              IF Parsed(ChatHistory[msg.replyTo]) # null
              THEN Parsed(ChatHistory[msg.replyTo]).resumeToken
              ELSE bubbleInfo.bubble.resumeToken, ChatId)
    /\ bubbleReply' =
          [seen EXCEPT !.pc = "returned",
                       !.result =
                           [type |-> "route_to_dydo",
                            orchestrationText |->
                                ResumeOrchestration(
                                    msg,
                                    IF Parsed(ChatHistory[msg.replyTo]) # null
                                    THEN Parsed(ChatHistory[msg.replyTo]).resumeToken
                                    ELSE bubbleInfo.bubble.resumeToken,
                                    bubbleInfo.bubble.projectName)]]
    /\ UNCHANGED chatMessages

\* No session, or the write failed: route through DyDo with the bubble's token.
Reconstructed(msg, bubbleInfo, seen) ==
    /\ forcedResumeToken' = setForcedResumeToken(bubbleInfo.bubble.resumeToken, ChatId)
    /\ bubbleReply' =
          [seen EXCEPT !.pc = "returned",
                       !.result =
                           [type |-> "route_to_dydo",
                            orchestrationText |->
                                ResumeOrchestration(msg, bubbleInfo.bubble.resumeToken,
                                                    bubbleInfo.bubble.projectName)]]
    /\ UNCHANGED chatMessages

\* The found path taking the write for done whenever there is a session
FoundReplyTrustingSession(msg, bubbleInfo, session, success, seen) ==
    /\ dydoCommands' =
          Append(dydoCommands,
                 DyDoCommand(msg.text, bubbleInfo.bubble.resumeToken,
                             bubbleInfo.bubble.projectName))
    /\ sessionInputs' =
          IF session
          THEN Append(sessionInputs,
                      [sessionId |-> bubbleInfo.sessionId, text |-> msg.text,
                       delivered |-> success])
          ELSE sessionInputs
    /\ IF session THEN Forwarded(msg, seen)
       ELSE Reconstructed(msg, bubbleInfo, seen)

\* The bubble is in the index. session is what getSession returned; sendInput
\* is called only on a session, and success is what it returned.
FoundReply(msg, bubbleInfo, session, success, seen) ==
    /\ dydoCommands' =
          Append(dydoCommands,
                 DyDoCommand(msg.text, bubbleInfo.bubble.resumeToken,
                             bubbleInfo.bubble.projectName))
    /\ sessionInputs' =
          IF session
          THEN Append(sessionInputs,
                      [sessionId |-> bubbleInfo.sessionId, text |-> msg.text,
                       delivered |-> success])
          ELSE sessionInputs
    /\ IF session /\ success THEN Forwarded(msg, seen)
       ELSE Reconstructed(msg, bubbleInfo, seen)

HandleReply(msg, bubbleInfo, seen) ==
    IF bubbleInfo = null
    THEN FallbackReply(msg, Parsed(ChatHistory[msg.replyTo]), seen)
    ELSE FoundReply(msg, bubbleInfo, getSession(bubbleInfo.sessionId),
                    sendSessionInput(bubbleInfo.sessionId, msg.text), seen)

\* The reply in hand with the bubble the lookup returned and, for the record,
\* the state its session was in at that moment.
Seen(bubbleInfo) ==
    [bubbleReply EXCEPT
       !.bubbleInfo = bubbleInfo,
       !.live = IF bubbleInfo = null THEN NotLive
                ELSE liveSessions[bubbleInfo.sessionId]]

\* handleBubbleReply from the lookup to its next await or its return.
handleBubbleReply ==
    /\ bubbleReply.pc = "called"
    /\ HandleReply(bubbleReply.msg, isReplyToBubble(ChatId, bubbleReply.msg.replyTo),
                   Seen(isReplyToBubble(ChatId, bubbleReply.msg.replyTo)))
    /\ UNCHANGED <<bubbleIndex, liveSessions, normalHandling, contextBuilt, repliesSeen,
                   detectorVars, oracleVars>>

\* The fallback resume handing over its request without forcing the token
ProjectResolvedUnforced ==
    /\ bubbleReply.pc = "resolving"
    /\ LET msg == bubbleReply.msg
           fallbackInfo == bubbleReply.fallbackInfo
       IN  IF ~resolveProject(fallbackInfo.projectName)
           THEN /\ chatMessages' =
                      Append(chatMessages,
                             "Could not find project: " \o fallbackInfo.projectName)
                /\ bubbleReply' = [bubbleReply EXCEPT !.pc = "sending"]
           ELSE /\ bubbleReply' =
                      [bubbleReply EXCEPT
                         !.pc = "returned",
                         !.result =
                             [type |-> "route_to_dydo",
                              orchestrationText |->
                                  ResumeOrchestration(msg, fallbackInfo.resumeToken,
                                                      fallbackInfo.projectName)]]
                /\ UNCHANGED chatMessages
    /\ UNCHANGED <<bubbleIndex, liveSessions, forcedResumeToken, dydoCommands,
                   sessionInputs, normalHandling, contextBuilt, repliesSeen, detectorVars,
                   oracleVars>>

\* The fallback resume forcing the token before it knows the project
ProjectResolvedForcingFirst ==
    /\ bubbleReply.pc = "resolving"
    /\ forcedResumeToken' =
          setForcedResumeToken(bubbleReply.fallbackInfo.resumeToken, ChatId)
    /\ LET msg == bubbleReply.msg
           fallbackInfo == bubbleReply.fallbackInfo
       IN  IF ~resolveProject(fallbackInfo.projectName)
           THEN /\ chatMessages' =
                      Append(chatMessages,
                             "Could not find project: " \o fallbackInfo.projectName)
                /\ bubbleReply' = [bubbleReply EXCEPT !.pc = "sending"]
           ELSE /\ bubbleReply' =
                      [bubbleReply EXCEPT
                         !.pc = "returned",
                         !.result =
                             [type |-> "route_to_dydo",
                              orchestrationText |->
                                  ResumeOrchestration(msg, fallbackInfo.resumeToken,
                                                      fallbackInfo.projectName)]]
                /\ UNCHANGED chatMessages
    /\ UNCHANGED <<bubbleIndex, liveSessions, dydoCommands, sessionInputs,
                   normalHandling, contextBuilt, repliesSeen, detectorVars, oracleVars>>

\* handleBubbleReply after awaiting resolveProject on the fallback path.
ProjectResolved ==
    /\ bubbleReply.pc = "resolving"
    /\ LET msg == bubbleReply.msg
           fallbackInfo == bubbleReply.fallbackInfo
       IN  IF ~resolveProject(fallbackInfo.projectName)
           THEN /\ chatMessages' =
                      Append(chatMessages,
                             "Could not find project: " \o fallbackInfo.projectName)
                /\ bubbleReply' = [bubbleReply EXCEPT !.pc = "sending"]
                /\ UNCHANGED forcedResumeToken
           ELSE /\ forcedResumeToken' =
                      setForcedResumeToken(fallbackInfo.resumeToken, ChatId)
                /\ bubbleReply' =
                      [bubbleReply EXCEPT
                         !.pc = "returned",
                         !.result =
                             [type |-> "route_to_dydo",
                              orchestrationText |->
                                  ResumeOrchestration(msg, fallbackInfo.resumeToken,
                                                      fallbackInfo.projectName)]]
                /\ UNCHANGED chatMessages
    /\ UNCHANGED <<bubbleIndex, liveSessions, dydoCommands, sessionInputs,
                   normalHandling, contextBuilt, repliesSeen, detectorVars, oracleVars>>

\* The await of resolveProject rejects: nothing catches it in
\* handleBubbleReply, whose promise rejects with it.
ProjectResolutionFails ==
    /\ bubbleReply.pc = "resolving"
    /\ bubbleReply' = [bubbleReply EXCEPT !.pc = "threw"]
    /\ UNCHANGED <<bubbleIndex, liveSessions, forcedResumeToken, dydoCommands,
                   sessionInputs, chatMessages, normalHandling, contextBuilt, repliesSeen,
                   detectorVars, oracleVars>>

\* The message processor awaits handleBubbleReply without a catch: it rejects
\* too, and the message goes to no handling at all.
ProcessorRejects ==
    /\ bubbleReply.pc = "threw"
    /\ bubbleReply' = [bubbleReply EXCEPT !.pc = "idle"]
    /\ UNCHANGED <<bubbleIndex, liveSessions, forcedResumeToken, dydoCommands,
                   sessionInputs, chatMessages, normalHandling, contextBuilt, repliesSeen,
                   detectorVars, oracleVars>>

\* api.sendMessage settles (a failure is swallowed): handled directly.
MessageSent ==
    /\ bubbleReply.pc = "sending"
    /\ bubbleReply' = [bubbleReply EXCEPT !.pc = "returned",
                                          !.result = [type |-> "handled_directly",
                                                      orchestrationText |-> ""]]
    /\ UNCHANGED <<bubbleIndex, liveSessions, forcedResumeToken, dydoCommands,
                   sessionInputs, chatMessages, normalHandling, contextBuilt, repliesSeen,
                   detectorVars, oracleVars>>

\* The message processor handing on the text as it came whatever the outcome
DispatchKeepingText ==
    /\ bubbleReply.pc = "returned"
    /\ normalHandling' =
          IF bubbleReply.result.type = "handled_directly" THEN normalHandling
          ELSE Append(normalHandling, bubbleReply.msg.text)
    /\ IF bubbleReply.result.type = "handled_directly" THEN UNCHANGED contextBuilt
       ELSE \E context \in BOOLEAN : contextBuilt' = Append(contextBuilt, context)
    /\ bubbleReply' = [bubbleReply EXCEPT !.pc = "idle"]
    /\ UNCHANGED <<bubbleIndex, liveSessions, forcedResumeToken, dydoCommands,
                   sessionInputs, chatMessages, repliesSeen, detectorVars, oracleVars>>

\* The message processor after handleBubbleReply returned: the message, when
\* it was not handled directly, goes to buildTelegramMessageContext, and to
\* dispatchTelegramMessage when that gave a context.
Dispatch ==
    /\ bubbleReply.pc = "returned"
    /\ normalHandling' =
          CASE bubbleReply.result.type = "handled_directly" -> normalHandling
            [] bubbleReply.result.type = "route_to_dydo" ->
                 Append(normalHandling, bubbleReply.result.orchestrationText)
            [] OTHER -> Append(normalHandling, bubbleReply.msg.text)
    /\ IF bubbleReply.result.type = "handled_directly" THEN UNCHANGED contextBuilt
       ELSE \E context \in BOOLEAN : contextBuilt' = Append(contextBuilt, context)
    /\ bubbleReply' = [bubbleReply EXCEPT !.pc = "idle"]
    /\ UNCHANGED <<bubbleIndex, liveSessions, forcedResumeToken, dydoCommands,
                   sessionInputs, chatMessages, repliesSeen, detectorVars, oracleVars>>

\* The "- resumeToken" line of a resume request
NamedToken ==
    RegExp("- resumeToken: \"([^\"]+)\"",
           Cat(<<Lit("- resumeToken: \""), Group(Plus(NoneOf({"\""}))), Lit("\"")>>),
           FALSE)

\* DyDo acts on the i-th text it was handed, a resume request: its tool call
\* consults the forced resume token of the chat, which overrides the token
\* DyDo would pass on its own (the one the request names).
DyDoResumes(i) ==
    /\ i <= Len(normalHandling)
    /\ contextBuilt[i]
    /\ startsWith(normalHandling[i], "[Claude Code Resume Request]")
    /\ \A k \in 1..Len(resumes) : resumes[k].request # i
    /\ resumes' =
          Append(resumes,
                 [request |-> i,
                  named |-> exec(NamedToken, normalHandling[i]).cap,
                  resumed |-> IF forcedResumeToken[ChatId] # ""
                              THEN forcedResumeToken[ChatId]
                              ELSE exec(NamedToken, normalHandling[i]).cap])
    /\ UNCHANGED <<routerVars, detectorVars, assessment, autoInputs, callbackAnswers, toolVars>>

\* The agent process of a session exits: the session leaves the registry.
SessionExits(sessionId) ==
    /\ liveSessions[sessionId].registered
    /\ liveSessions' = [liveSessions EXCEPT
                           ![sessionId] = [registered |-> FALSE, accepting |-> FALSE]]
    /\ UNCHANGED <<bubbleIndex, forcedResumeToken, dydoCommands, sessionInputs,
                   chatMessages, bubbleReply, normalHandling, contextBuilt, repliesSeen,
                   detectorVars, oracleVars>>

\* The input channel of a session closes while the session is still registered.
ChannelCloses(sessionId) ==
    /\ liveSessions[sessionId].registered
    /\ liveSessions[sessionId].accepting
    /\ liveSessions' = [liveSessions EXCEPT ![sessionId].accepting = FALSE]
    /\ UNCHANGED <<bubbleIndex, forcedResumeToken, dydoCommands, sessionInputs,
                   chatMessages, bubbleReply, normalHandling, contextBuilt, repliesSeen,
                   detectorVars, oracleVars>>

\* The index drops an old bubble.
BubbleForgotten(messageId) ==
    /\ bubbleIndex[messageId] # null
    /\ bubbleIndex' = [bubbleIndex EXCEPT ![messageId] = null]
    /\ UNCHANGED <<liveSessions, forcedResumeToken, dydoCommands, sessionInputs,
                   chatMessages, bubbleReply, normalHandling, contextBuilt, repliesSeen,
                   detectorVars, oracleVars>>

-----------------------------------------------------------------------------
(* The buttons of a bubble: handleClaudeCodeCallback                       *)

MaxQueries == 2

MaxPushes == 2

WordChars == CharsOf("abcdefghijklmnopqrstuvwxyzABCDEFGHIJKLMNOPQRSTUVWXYZ0123456789_")

\* \w+ to the end of the data
IsWord(s) == s # "" /\ \A i \in 1..Len(s) : Char(s, i) \in WordChars

\* String.prototype.slice(n), n counted from 0
sliceFrom(s, n) == SubSeq(s, n + 1, Len(s))

\* data.match(/^claude:(continue|cancel):(\w+)$/): the action and the token
\* prefix, or null. The two actions do not start alike, so that the match is
\* the prefix "claude:<action>:" followed by word characters up to the end.
parseClaudeCallback(data) ==
    IF startsWith(data, "claude:continue:") /\ IsWord(sliceFrom(data, 16))
    THEN [action |-> "continue", tokenPrefix |-> sliceFrom(data, 16)]
    ELSE IF startsWith(data, "claude:cancel:") /\ IsWord(sliceFrom(data, 14))
    THEN [action |-> "cancel", tokenPrefix |-> sliceFrom(data, 14)]
    ELSE null

\* The callback data of the model: the two buttons of the two bubbles, a
\* button of a session nothing is left of, and data that is not of the form.
CallbackData ==
    {"claude:continue:9b2e4c1a", "claude:cancel:9b2e4c1a",
     "claude:continue:0f8fad5b", "claude:cancel:0f8fad5b",
     "claude:continue:123e4567", "claude:cancel:123e4567",
     "claude:answer:9b2e4c1a", "claude:continue:", "claude:cancel:9b2e4c1a\n",
     "claude:continue:9b2e4c1a-7d3f", "xclaude:cancel:9b2e4c1a", "menu:open"}

\* The resume token of the sessions of the registry
SessionToken == [i \in SessionIds |-> IF i = "s1" THEN StoredToken ELSE OtherToken]

\* getSessionByToken: the id of the live session of the token ("" for none)
getSessionByToken(tokenPrefix) ==
    IF \E i \in SessionIds :
          liveSessions[i].registered /\ startsWith(SessionToken[i], tokenPrefix)
    THEN CHOOSE i \in SessionIds :
            liveSessions[i].registered /\ startsWith(SessionToken[i], tokenPrefix)
    ELSE ""

\* getBubbleByTokenPrefix: the indexed bubble of the token, or null
getBubbleByTokenPrefix(tokenPrefix) ==
    LET found == {m \in MessageIds :
                     /\ bubbleIndex[m] # null
                     /\ startsWith(bubbleIndex[m].bubble.resumeToken, tokenPrefix)}
    IN  IF found = {} THEN null ELSE bubbleIndex[Min(found)]

\* The id startSession gives the n-th session it starts
NewSessionId(n) == IF n = 1 THEN "s3" ELSE "s4"

\* No callback query has arrived. Of the query in hand: its data, what was
\* looked up for it, the answers it was given, what the handler returned
\* ("none" until it has), the newSessionId of its closure and whether the
\* bubble of that session exists. Of all queries: what was given to
\* startSession, sendInput and cancelSessionByToken, the calls of
\* updateSessionBubble and the state changes that were dropped.
NoCallback ==
    [pc |-> "idle", data |-> "", session |-> "", bubble |-> null, answers |-> <<>>,
     returned |-> "none", newSessionId |-> "", created |-> FALSE, failures |-> 0,
     queries |-> 0, pushes |-> 0, started |-> <<>>, inputs |-> <<>>,
     cancelled |-> <<>>, updates |-> <<>>, dropped |-> 0]

\* The query in hand before anything was done for it
Asked(data) ==
    [callback EXCEPT !.pc = "returned", !.data = data, !.session = "",
                     !.bubble = null, !.answers = <<>>, !.returned = "none",
                     !.newSessionId = "", !.created = FALSE,
                     !.queries = callback.queries + 1]

Answered(query, text, returned) ==
    [query EXCEPT !.answers = Append(query.answers, text), !.returned = returned]

\* case "cancel" answering only for a cancellation that succeeded
OnCancelSilentOnFailure(query, session, success) ==
    IF session = "" THEN Answered(query, "Session already ended", "true")
    ELSE IF success
    THEN Answered([query EXCEPT !.session = session,
                                !.cancelled = Append(query.cancelled, session)],
                  "Session cancelled", "true")
    ELSE [query EXCEPT !.session = session, !.returned = "true"]

\* case "cancel"
OnCancel(query, session, success) ==
    IF session = "" THEN Answered(query, "Session already ended", "true")
    ELSE IF success
    THEN Answered([query EXCEPT !.session = session,
                                !.cancelled = Append(query.cancelled, session)],
                  "Session cancelled", "true")
    ELSE Answered([query EXCEPT !.session = session], "Failed to cancel session", "true")

\* case "continue" answering before it has looked for the session
OnContinueResumingAlways(query, session, bubbleInfo) ==
    IF bubbleInfo # null
    THEN Answered([query EXCEPT !.pc = "resuming", !.bubble = bubbleInfo.bubble],
                  "Resuming session...", "none")
    ELSE Answered(query, "Session info lost. Use CLI: claude --resume <token>", "true")

\* case "continue" up to its return or, on the way to startSession, to its
\* first await
OnContinue(query, session, bubbleInfo) ==
    IF session # ""
    THEN Answered([query EXCEPT
                     !.session = session,
                     !.inputs = Append(query.inputs,
                                       [sessionId |-> session, text |-> "continue"])],
                  IF sendSessionInput(session, "continue") THEN "Sent continue signal"
                  ELSE "Session not accepting input",
                  "true")
    ELSE IF bubbleInfo # null
    THEN Answered([query EXCEPT !.pc = "resuming", !.bubble = bubbleInfo.bubble],
                  "Resuming session...", "none")
    ELSE Answered(query, "Session info lost. Use CLI: claude --resume <token>", "true")

\* handleClaudeCodeCallback from its call to its return or to the await before
\* startSession; success is what cancelSessionByToken returns for a session.
OnCallback(query, parsed, success) ==
    IF parsed = null THEN [query EXCEPT !.returned = "false"]
    ELSE IF parsed.action = "cancel"
    THEN OnCancel(query, getSessionByToken(parsed.tokenPrefix), success)
    ELSE OnContinue(query, getSessionByToken(parsed.tokenPrefix),
                    getBubbleByTokenPrefix(parsed.tokenPrefix))

\* A button is pressed: the handler runs to its return or to its first await
\* on the way to startSession. A cancelled session leaves the registry.
CallbackQuery(data, success) ==
    /\ callback.pc \in {"idle", "returned"}
    /\ callback.queries < MaxQueries
    /\ callback' = OnCallback(Asked(data), parseClaudeCallback(data), success)
    /\ liveSessions' =
          IF Len(callback'.cancelled) > Len(callback.cancelled)
          THEN [liveSessions EXCEPT ![callback'.session] = NotLive]
          ELSE liveSessions
    /\ UNCHANGED <<detectorVars, bubbleIndex, forcedResumeToken, dydoCommands,
                   sessionInputs, chatMessages, bubbleReply, normalHandling,
                   contextBuilt, repliesSeen, assessment, resumes, autoInputs,
                   callbackAnswers, thinking, reauth, planning>>

\* The answer and the import are through: startSession is called with the
\* working directory and the token of the bubble, and with onStateChange.
StartSessionCalled ==
    /\ callback.pc = "resuming"
    /\ callback' =
          [callback EXCEPT
             !.pc = "starting",
             !.started = Append(callback.started,
                                [workingDir |-> callback.bubble.workingDir,
                                 resumeToken |-> callback.bubble.resumeToken,
                                 prompt |-> "continue"])]
    /\ UNCHANGED <<detectorVars, routerVars, assessment, resumes, autoInputs,
                   callbackAnswers, thinking, reauth, planning>>

\* startSession returns: on success newSessionId is set, and with a chat, a
\* session id and a resume token in hand createSessionBubble is awaited; on
\* failure the chat is told and the handler returns.
StartSessionReturns(success, complete) ==
    /\ callback.pc = "starting"
    /\ callback' =
          IF success
          THEN [callback EXCEPT !.pc = IF complete THEN "creating" ELSE "returned",
                                !.returned = IF complete THEN "none" ELSE "true",
                                !.newSessionId = NewSessionId(Len(callback.started))]
          ELSE [callback EXCEPT !.pc = "returned", !.returned = "true",
                                !.failures = callback.failures + 1]
    /\ UNCHANGED <<detectorVars, routerVars, assessment, resumes, autoInputs,
                   callbackAnswers, thinking, reauth, planning>>

\* createSessionBubble completes and the handler returns.
BubbleCreated ==
    /\ callback.pc = "creating"
    /\ callback' = [callback EXCEPT !.pc = "returned", !.returned = "true",
                                    !.created = TRUE]
    /\ UNCHANGED <<detectorVars, routerVars, assessment, resumes, autoInputs,
                   callbackAnswers, thinking, reauth, planning>>

\* The agent process of the session being started pushes a state change:
\* onStateChange drops it while newSessionId is not set, and calls
\* updateSessionBubble otherwise.
StateChangePushed ==
    /\ \/ callback.pc \in {"starting", "creating"}
       \/ callback.pc = "returned" /\ callback.newSessionId # ""
    /\ callback.pushes < MaxPushes
    /\ callback' =
          IF callback.newSessionId = ""
          THEN [callback EXCEPT !.pushes = callback.pushes + 1,
                                !.dropped = callback.dropped + 1]
          ELSE [callback EXCEPT
                  !.pushes = callback.pushes + 1,
                  !.updates = Append(callback.updates,
                                     [sessionId |-> callback.newSessionId,
                                      created |-> callback.created])]
    /\ UNCHANGED <<detectorVars, routerVars, assessment, resumes, autoInputs,
                   callbackAnswers, thinking, reauth, planning>>

-----------------------------------------------------------------------------
(* Thinking default of a model                                             *)

\* The catalog of the tests: two models that reason
reasoningCatalog ==
    {[id |-> "claude-sonnet-4", name |-> "Claude Sonnet 4", provider |-> "anthropic",
      reasoning |-> TRUE],
     [id |-> "gemini-3-flash", name |-> "Gemini 3 Flash", provider |-> "google",
      reasoning |-> TRUE]}

\* An entry without reasoning has reasoning undefined, which is falsy.
nonReasoningCatalog ==
    {[id |-> "gpt-4o", name |-> "GPT-4o", provider |-> "openai", reasoning |-> FALSE]}

\* cfg.agent.thinkingDefault of a configuration that sets none
NotConfigured == "undefined"

\* The thinking default without the rule for the Gemini models
resolveThinkingDefaultOfCatalog(cfg, provider, model, catalog) ==
    IF cfg # NotConfigured THEN cfg
    ELSE IF \E entry \in catalog :
               entry.provider = provider /\ entry.id = model /\ entry.reasoning
    THEN "low"
    ELSE "off"

\* resolveThinkingDefault({cfg, provider, model, catalog}); cfg is
\* cfg.agent?.thinkingDefault, and a catalog that is not given is empty.
resolveThinkingDefault(cfg, provider, model, catalog) ==
    IF cfg # NotConfigured THEN cfg
    ELSE IF includes(toLowerCase(model), "gemini") THEN "off"
    ELSE IF \E entry \in catalog :
               entry.provider = provider /\ entry.id = model /\ entry.reasoning
    THEN "low"
    ELSE "off"

ThinkLevels == {"off", "minimal", "low", "medium", "high"}

\* The providers and models resolveThinkingDefault is called with
ModelRefs ==
    {[provider |-> "anthropic", model |-> "claude-sonnet-4"],
     [provider |-> "google", model |-> "gemini-3-flash"],
     [provider |-> "google", model |-> "gemini-pro"],
     [provider |-> "openrouter", model |-> "google/gemini-2.0-flash-001"],
     [provider |-> "openai", model |-> "gpt-4o"],
     [provider |-> "openai", model |-> "claude-sonnet-4"]}

Catalogs == {{}, reasoningCatalog, nonReasoningCatalog}

\* resolveThinkingDefault has not been called.
NotResolved ==
    [pc |-> "idle", cfg |-> NotConfigured, provider |-> "", model |-> "",
     catalog |-> {}, result |-> ""]

\* The calls of resolveThinkingDefault
ThinkingCalls ==
    {[pc |-> "called", cfg |-> c, provider |-> r.provider, model |-> r.model,
      catalog |-> k, result |-> ""] :
        c \in ThinkLevels \cup {NotConfigured}, r \in ModelRefs, k \in Catalogs}

-----------------------------------------------------------------------------
(* Re-authentication script                                                *)

HourSeconds == 3600

\* The exit status of security when it finds no item
ItemNotFound == 44

\* The exit status of jq when it cannot read its input
JqFailure == 2

\* What the script is started with
Arguments == {"", "--force", "--check", "--sync"}

\* EXPIRES_AT_SEC - CURRENT_TIME, in seconds
TimeDiffs == {-7200, -1, 0, 3599, 3600, 7200}

\* The script has not been started: its argument and what it will find
\* (found: the keychain has the item; readStatus: the exit status of reading
\* and parsing it; the rest: whether tmux starts, the login completes, the
\* sync script is there and succeeds), and what it has done so far.
ReauthRun(argument, found, readStatus, timeDiff, tmux, oauth, syncScript, syncOk) ==
    [pc |-> "start", argument |-> argument, mode |-> "auto", found |-> found,
     readStatus |-> readStatus, timeDiff |-> timeDiff, tmux |-> tmux,
     oauth |-> oauth, syncScript |-> syncScript, syncOk |-> syncOk,
     login |-> FALSE, synced |-> FALSE, exit |-> 0]

NotRun == ReauthRun("", TRUE, 0, 7200, TRUE, TRUE, TRUE, TRUE)

ReauthRuns ==
    {ReauthRun(a, f, s, t, x, o, y, k) :
        a \in Arguments, f \in BOOLEAN, s \in {0, ItemNotFound, JqFailure},
        t \in TimeDiffs, x \in BOOLEAN, o \in BOOLEAN, y \in BOOLEAN, k \in BOOLEAN}

\* exit n
Exit(run, status) == [run EXCEPT !.pc = "exited", !.exit = status]

\* MODE of an argument
ParseMode(argument) ==
    IF argument = "--force" THEN "force"
    ELSE IF argument = "--check" THEN "check"
    ELSE "auto"

ParseArguments ==
    /\ reauth.pc = "start"
    /\ reauth' = [reauth EXCEPT !.pc = "find", !.mode = ParseMode(reauth.argument)]
    /\ UNCHANGED <<detectorVars, routerVars, assessment, resumes, autoInputs,
                   callbackAnswers, thinking, callback, planning>>

\* security find-generic-password -s ... -w, the test that the item exists
FindToken ==
    /\ reauth.pc = "find"
    /\ reauth' = IF reauth.found THEN [reauth EXCEPT !.pc = "read"] ELSE Exit(reauth, 1)
    /\ UNCHANGED <<detectorVars, routerVars, assessment, resumes, autoInputs,
                   callbackAnswers, thinking, callback, planning>>

\* TOKEN_DATA and EXPIRES_AT are read under set -e and pipefail: a command
\* that fails ends the script with its status.
ReadToken ==
    /\ reauth.pc = "read"
    /\ reauth' = IF reauth.readStatus = 0 THEN [reauth EXCEPT !.pc = "check"]
                 ELSE Exit(reauth, reauth.readStatus)
    /\ UNCHANGED <<detectorVars, routerVars, assessment, resumes, autoInputs,
                   callbackAnswers, thinking, callback, planning>>

\* The branches on the expiry with only the expired one leaving in check mode
AfterExpiryCheckLeavingOnlyExpired(run) ==
    IF run.timeDiff < 0
    THEN IF run.mode = "check" THEN Exit(run, 1) ELSE [run EXCEPT !.pc = "login"]
    ELSE [run EXCEPT !.pc = "sync"]

\* The branches on the expiry: where the script is after them
AfterExpiryCheck(run) ==
    IF run.timeDiff < 0
    THEN IF run.mode = "check" THEN Exit(run, 1) ELSE [run EXCEPT !.pc = "login"]
    ELSE IF run.timeDiff < HourSeconds
    THEN IF run.mode = "check" THEN Exit(run, 2) ELSE [run EXCEPT !.pc = "sync"]
    ELSE IF run.mode = "force" \/ run.mode = "check"
    THEN IF run.mode = "check" THEN Exit(run, 0) ELSE [run EXCEPT !.pc = "sync"]
    ELSE [run EXCEPT !.pc = "sync"]

CheckExpiry ==
    /\ reauth.pc = "check"
    /\ reauth' = AfterExpiryCheck(reauth)
    /\ UNCHANGED <<detectorVars, routerVars, assessment, resumes, autoInputs,
                   callbackAnswers, thinking, callback, planning>>

\* tmux new-session and send-keys "claude /login"
StartLogin ==
    /\ reauth.pc = "login"
    /\ reauth' = IF reauth.tmux THEN [reauth EXCEPT !.pc = "oauth", !.login = TRUE]
                 ELSE Exit(reauth, 1)
    /\ UNCHANGED <<detectorVars, routerVars, assessment, resumes, autoInputs,
                   callbackAnswers, thinking, callback, planning>>

\* The wait for a newer token: two minutes at most
AwaitOAuth ==
    /\ reauth.pc = "oauth"
    /\ reauth' = IF reauth.oauth THEN [reauth EXCEPT !.pc = "sync"] ELSE Exit(reauth, 1)
    /\ UNCHANGED <<detectorVars, routerVars, assessment, resumes, autoInputs,
                   callbackAnswers, thinking, callback, planning>>

\* sync-anthropic-keychain.sh is run when it is there; the script ends.
SyncToken ==
    /\ reauth.pc = "sync"
    /\ reauth' =
          IF ~reauth.syncScript THEN Exit(reauth, 0)
          ELSE IF reauth.syncOk THEN Exit([reauth EXCEPT !.synced = TRUE], 0)
          ELSE Exit([reauth EXCEPT !.synced = TRUE], 1)
    /\ UNCHANGED <<detectorVars, routerVars, assessment, resumes, autoInputs,
                   callbackAnswers, thinking, callback, planning>>

-----------------------------------------------------------------------------
(* Specifications                                                          *)

\* The sessions, their chat and their oracle before anything happened
SessionsInit ==
    /\ sessionLog = <<>>
    /\ sessionState = "running"
    /\ endOfSession = [called |-> FALSE, lastNEvents |-> 0, recent |-> <<>>,
                       scan |-> [blocker |-> undefined, from |-> 0]]
    /\ realtime = [pc |-> "idle", event |-> ToolUse, suspected |-> undefined,
                   decision |-> undefined, result |-> NotIntervened("")]
    /\ oracleCalls = 0
    /\ bubbleIndex = InitialBubbles
    /\ liveSessions = [i \in SessionIds |-> [registered |-> TRUE, accepting |-> TRUE]]
    /\ forcedResumeToken = [c \in {ChatId} |-> ""]
    /\ dydoCommands = <<>>
    /\ sessionInputs = <<>>
    /\ chatMessages = <<>>
    /\ bubbleReply = Idle
    /\ normalHandling = <<>>
    /\ contextBuilt = <<>>
    /\ repliesSeen = 0
    /\ assessment = NotAssessed
    /\ resumes = <<>>
    /\ autoInputs = <<>>
    /\ callbackAnswers = <<>>
    /\ callback = NoCallback

Init ==
    /\ SessionsInit
    /\ thinking = NotResolved
    /\ reauth = NotRun
    /\ planning = NotBuilt

\* The agent session with the realtime check and the end-of-session check
Next ==
    \/ \E e \in Events : AgentEmit(e)
    \/ OracleAnswers
    \/ OracleFails
    \/ \E d \in DyDoDecisions : DyDoDecides(d)
    \/ \E n \in 0..MaxLastN : SessionEnds(n)
    \/ \E status \in SessionStatuses : AssessBlocker(status)
    \/ AssessmentReturns
    \/ AssessmentFails

Spec == Init /\ [][Next]_vars

\* The chat replies and the router
RouterNext ==
    \/ \E m \in Replies : Receive(m)
    \/ handleBubbleReply
    \/ ProjectResolved
    \/ ProjectResolutionFails
    \/ ProcessorRejects
    \/ MessageSent
    \/ Dispatch
    \/ \E i \in SessionIds : SessionExits(i)
    \/ \E i \in SessionIds : ChannelCloses(i)
    \/ \E i \in MessageIds : BubbleForgotten(i)
    \/ \E i \in 1..MaxReplies : DyDoResumes(i)

RouterSpec == Init /\ [][RouterNext]_vars

-----------------------------------------------------------------------------
(* One session with its interventor, its chat and its cancel button        *)

\* The session the realtime check watches is session s1 of the registry.
MonitoredSession == "s1"

MaxCallbacks == 2

\* What the agent of the watched session emits
MonitoredEvents ==
    {AssistantMessage(FundingReport), AssistantMessage(ProceedQuestion), ToolUse}

\* What the user replies to the bubble of the watched session
MonitoredReplies == {[replyTo |-> 1, text |-> "yes, go ahead", threadId |-> 0]}

\* checkForRealtimeIntervention returned a response that is neither injected
\* nor dropped yet.
InjectionPending == realtime.pc = "done" /\ realtime.result.intervened

\* The watched session emits an event while it is registered; its events are
\* handled one at a time.
SessionEmits(e) ==
    /\ getSession(MonitoredSession)
    /\ ~InjectionPending
    /\ AgentEmit(e)

\* What sendInput is given for an intervention: the response, with the event
\* it answers and, for the record, the state the session was in.
AutoInput(response) ==
    [sessionId |-> MonitoredSession, text |-> response,
     event |-> Len(sessionLog), live |-> liveSessions[MonitoredSession],
     delivered |-> sendSessionInput(MonitoredSession, response)]

\* The injection without the look at the registry
InjectResponseUnchecked ==
    /\ InjectionPending
    /\ autoInputs' = Append(autoInputs, AutoInput(realtime.result.response))
    /\ realtime' = [realtime EXCEPT !.pc = "injected"]
    /\ UNCHANGED <<sessionLog, sessionState, endOfSession, oracleCalls, routerVars,
                   assessment, resumes, callbackAnswers, toolVars>>

\* The router takes the result of the realtime check: it looks the session up
\* again and writes the response to its input, or drops it.
InjectResponse ==
    /\ InjectionPending
    /\ IF getSession(MonitoredSession)
       THEN /\ autoInputs' = Append(autoInputs, AutoInput(realtime.result.response))
            /\ realtime' = [realtime EXCEPT !.pc = "injected"]
       ELSE /\ autoInputs' = autoInputs
            /\ realtime' = [realtime EXCEPT !.pc = "discarded"]
    /\ UNCHANGED <<sessionLog, sessionState, endOfSession, oracleCalls, routerVars,
                   assessment, resumes, callbackAnswers, toolVars>>

\* What answerCallbackQuery is given, with whether the bubble was edited to
\* its cancelled state and, for the record, where the realtime check stood.
CallbackAnswer(text, edited) ==
    [text |-> text, edited |-> edited, realtime |-> realtime.pc]

\* handleClaudeCodeCallback on the cancel button of the watched session;
\* success is what cancelSessionByToken returns.
CancelCallback(success) ==
    /\ Len(callbackAnswers) < MaxCallbacks
    /\ IF ~getSession(MonitoredSession)
       THEN /\ callbackAnswers' =
                  Append(callbackAnswers, CallbackAnswer("Session already ended", FALSE))
            /\ UNCHANGED liveSessions
       ELSE IF success
       THEN /\ callbackAnswers' =
                  Append(callbackAnswers, CallbackAnswer("Session cancelled", TRUE))
            /\ liveSessions' = [liveSessions EXCEPT ![MonitoredSession] = NotLive]
       ELSE /\ callbackAnswers' =
                  Append(callbackAnswers, CallbackAnswer("Failed to cancel session", FALSE))
            /\ UNCHANGED liveSessions
    /\ UNCHANGED <<bubbleIndex, forcedResumeToken, dydoCommands, sessionInputs,
                   chatMessages, bubbleReply, normalHandling, contextBuilt, repliesSeen,
                   detectorVars, assessment, resumes, autoInputs, toolVars>>

SessionNext ==
    \/ \E e \in MonitoredEvents : SessionEmits(e)
    \/ OracleAnswers
    \/ OracleFails
    \/ \E d \in DyDoDecisions : DyDoDecides(d)
    \/ InjectResponse
    \/ \E m \in MonitoredReplies : Receive(m)
    \/ handleBubbleReply
    \/ MessageSent
    \/ Dispatch
    \/ \E success \in BOOLEAN : CancelCallback(success)
    \/ SessionExits(MonitoredSession)
    \/ ChannelCloses(MonitoredSession)

SessionSpec == Init /\ [][SessionNext]_vars

-----------------------------------------------------------------------------
(* The two oracle calls of one session, with an oracle that need not answer *)

OracleNext ==
    \/ \E e \in MonitoredEvents : SessionEmits(e)
    \/ OracleAnswers
    \/ OracleFails
    \/ \E d \in DyDoDecisions : DyDoDecides(d)
    \/ InjectResponse
    \/ \E n \in 0..MaxLastN : SessionEnds(n)
    \/ \E status \in SessionStatuses : AssessBlocker(status)
    \/ AssessmentReturns
    \/ AssessmentFails

\* The program takes its own step when it can: a response it was given is
\* injected or dropped. Nothing makes the oracle answer or fail: its steps
\* (OracleAnswers, OracleFails, DyDoDecides, AssessmentReturns,
\* AssessmentFails) happen or do not, and the code sets no timer.
OracleSpec ==
    /\ Init
    /\ [][OracleNext]_vars
    /\ WF_vars(InjectResponse)

-----------------------------------------------------------------------------
(* The buttons pressed while sessions exit and bubbles are forgotten       *)

CallbackNext ==
    \/ \E data \in CallbackData : \E success \in BOOLEAN : CallbackQuery(data, success)
    \/ StartSessionCalled
    \/ \E success, complete \in BOOLEAN : StartSessionReturns(success, complete)
    \/ BubbleCreated
    \/ StateChangePushed
    \/ \E i \in SessionIds : SessionExits(i)
    \/ \E i \in SessionIds : ChannelCloses(i)
    \/ \E i \in MessageIds : BubbleForgotten(i)

CallbackSpec == Init /\ [][CallbackNext]_vars

-----------------------------------------------------------------------------
(* The calls of buildPlanningRequest                                       *)

PlanningInit ==
    /\ SessionsInit
    /\ thinking = NotResolved
    /\ reauth = NotRun
    /\ planning \in PlanningCalls

BuildPlanningRequest ==
    /\ ~planning.built
    /\ planning.params # undefined
    /\ planning' = [planning EXCEPT !.built = TRUE,
                                    !.request = buildPlanningRequest(planning.params)]
    /\ UNCHANGED <<detectorVars, routerVars, assessment, resumes, autoInputs,
                   callbackAnswers, thinking, reauth, callback>>

PlanningNext == BuildPlanningRequest

PlanningSpec == PlanningInit /\ [][PlanningNext]_vars

-----------------------------------------------------------------------------
(* The calls of resolveThinkingDefault                                     *)

ThinkingInit ==
    /\ SessionsInit
    /\ thinking \in ThinkingCalls
    /\ reauth = NotRun
    /\ planning = NotBuilt

ResolveThinking ==
    /\ thinking.pc = "called"
    /\ thinking' =
          [thinking EXCEPT
             !.pc = "resolved",
             !.result = resolveThinkingDefault(thinking.cfg, thinking.provider,
                                               thinking.model, thinking.catalog)]
    /\ UNCHANGED <<detectorVars, routerVars, assessment, resumes, autoInputs,
                   callbackAnswers, reauth, callback, planning>>

ThinkingNext == ResolveThinking

ThinkingSpec == ThinkingInit /\ [][ThinkingNext]_vars

-----------------------------------------------------------------------------
(* The runs of the re-authentication script                                *)

ReauthInit ==
    /\ SessionsInit
    /\ thinking = NotResolved
    /\ reauth \in ReauthRuns
    /\ planning = NotBuilt

ReauthNext ==
    \/ ParseArguments
    \/ FindToken
    \/ ReadToken
    \/ CheckExpiry
    \/ StartLogin
    \/ AwaitOAuth
    \/ SyncToken

ReauthSpec == ReauthInit /\ [][ReauthNext]_vars

-----------------------------------------------------------------------------
(* Properties of the end-of-session check                                  *)

LastRecent == endOfSession.recent[Len(endOfSession.recent)]

\* C1: when the session has ended and the most recent scanned assistant
\* message contains a completion signal, checkEventsForBlocker has returned no
\* blocker, whatever the earlier scanned messages contain and even when that
\* last message itself matches strong blocker patterns.
C1_CompletionWins ==
    (endOfSession.called /\ endOfSession.recent # <<>>
        /\ OnText(LastRecent.text).completion)
    => endOfSession.scan.blocker = undefined

\* A session ended on a completion message that also matches funding
\* patterns, after a funding report: nothing was returned.
C1_Witness ==
    /\ endOfSession.called
    /\ Len(endOfSession.recent) = 2
    /\ endOfSession.recent[1].text = FundingReport
    /\ LastRecent.text = CompleteButFunding
    /\ OnText(FundingReport).ended # undefined
    /\ OnText(CompleteButFunding).ended # undefined
    /\ endOfSession.scan.blocker = undefined

\* List-like as the design words it: some line starts with "- ", "* ", "+ ",
\* with digits and ". ", or with a heading word that a colon follows.
C2_HeadingWords ==
    {"task", "criteria", "signal", "example", "quantitative", "qualitative"}

C2_StartsWithWord(line, w) ==
    /\ Len(line) >= Len(w)
    /\ \A j \in 1..Len(w) : LowerChar(Char(line, j)) = Char(w, j)

C2_LineIsListLike(line) ==
    \/ \E m \in {"- ", "* ", "+ "} : startsWith(line, m)
    \/ \E n \in 1..(Len(line) - 2) :
          /\ \A j \in 1..n : Char(line, j) \in DigitChars
          /\ SubSeq(line, n + 1, n + 2) = ". "
    \/ \E w \in C2_HeadingWords :
          C2_StartsWithWord(line, w) /\ includes(line, ":")

C2_ListLike(text) ==
    \E k \in 1..Len(splitLines(text)) : C2_LineIsListLike(splitLines(text)[k])

\* C2: at the end of a session, a message that is list-like (some line starts
\* with "- ", "* ", "+ ", "N. " or a recognized heading word followed by a
\* colon) is never the message a returned BlockerInfo comes from.
C2_ListLikeNeverReported ==
    (endOfSession.called /\ endOfSession.scan.from > 0)
    => ~C2_ListLike(endOfSession.recent[endOfSession.scan.from].text)

\* The list item of the design's scenario alone in a session: no blocker.
C2_Witness ==
    /\ endOfSession.called
    /\ sessionLog = <<AssistantMessage(ListScenario)>>
    /\ C2_ListLike(ListScenario)
    /\ endOfSession.scan.blocker = undefined

\* C4: for a session whose only event is the assistant message "Need 2 SOL to
\* proceed, current balance 0.1 SOL", the end-of-session check returns a
\* BlockerInfo whose first matched category is funding_needed, with
\* extractedContext.needed = "2" and extractedContext.current = "0.1".
C4_FundingScenarioReported ==
    (endOfSession.called /\ endOfSession.lastNEvents = DefaultLastNEvents
        /\ sessionLog = <<AssistantMessage(FundingScenario)>>)
    => /\ endOfSession.scan.blocker # undefined
       /\ startsWith(endOfSession.scan.blocker.matchedPatterns[1], "funding_needed:")
       /\ {"needed", "current"} \subseteq DOMAIN endOfSession.scan.blocker.extractedContext
       /\ endOfSession.scan.blocker.extractedContext.needed = "2"
       /\ endOfSession.scan.blocker.extractedContext.current = "0.1"

\* The session of that scenario has ended and been checked.
C4_Witness ==
    /\ endOfSession.called
    /\ endOfSession.lastNEvents = DefaultLastNEvents
    /\ sessionLog = <<AssistantMessage(FundingScenario)>>
    /\ endOfSession.recent = <<AssistantMessage(FundingScenario)>>

-----------------------------------------------------------------------------
(* Properties of the realtime check                                        *)

\* The realtime check has run on an assistant message with text.
RealtimeChecked == realtime.pc # "idle" /\ IsAssistantText(realtime.event)

\* C3: with sessionEnded = false, detectBlocker reports a text whose primary
\* category is funding_needed even with exactly one matched pattern, and
\* reports a text with another primary category only when at least two
\* patterns matched.
C3_StrictPolicy ==
    RealtimeChecked =>
        LET locals == OnText(realtime.event.text).locals
            reported == realtime.suspected # undefined
        IN  /\ locals.primaryCategory = "funding_needed" => reported
            /\ (reported /\ locals.primaryCategory # "funding_needed")
                   => Len(locals.matchedPatterns) >= 2

\* A message with one funding pattern and nothing else was reported.
C3_Witness ==
    /\ RealtimeChecked
    /\ realtime.event.text = SingleFunding
    /\ Len(OnText(SingleFunding).locals.matchedPatterns) = 1
    /\ realtime.suspected # undefined
    /\ realtime.suspected.matchedPatterns = <<"funding_needed:faucet">>

\* An event that is an assistant message matching no pattern, or exactly one
\* pattern of a category other than funding_needed
C5_Weak(e) ==
    /\ IsAssistantText(e)
    /\ \/ OnText(e.text).locals.matchedPatterns = <<>>
       \/ /\ Len(OnText(e.text).locals.matchedPatterns) = 1
          /\ OnText(e.text).locals.primaryCategory # "funding_needed"

\* C5: a streaming assistant message that matches no pattern or exactly one
\* non-funding pattern never triggers the realtime intervention: the check
\* returns intervened = false at once and the oracle is not consulted for it.
C5_WeakSignalsSilent ==
    /\ (realtime.pc # "idle" /\ C5_Weak(realtime.event))
           => /\ realtime.pc = "done"
              /\ realtime.result.intervened = FALSE
              /\ realtime.decision = undefined
    /\ oracleCalls <= Cardinality({i \in 1..Len(sessionLog) : ~C5_Weak(sessionLog[i])})

\* A lone "please run" message went by without the oracle being asked.
C5_Witness ==
    /\ realtime.pc = "done"
    /\ realtime.event = AssistantMessage(LonePlease)
    /\ Len(OnText(LonePlease).locals.matchedPatterns) = 1
    /\ realtime.result.intervened = FALSE
    /\ sessionLog = <<AssistantMessage(ProceedQuestion), AssistantMessage(LonePlease)>>
    /\ oracleCalls = 0

-----------------------------------------------------------------------------
(* Properties of the router                                                *)

\* handleBubbleReply has looked the reply up and acted on it.
ReplyHandled == bubbleReply.pc \in {"resolving", "sending", "returned"}

LastInput == sessionInputs[Len(sessionInputs)]

\* C6: when the reply targets a known bubble whose session is live (registered
\* and taking input), the reply text is forwarded verbatim to that session and
\* the result is handled_directly; no resume token is forced and no
\* orchestration request is built.
C6_LiveBubbleForwarded ==
    (ReplyHandled /\ bubbleReply.bubbleInfo # null
        /\ bubbleReply.live.registered /\ bubbleReply.live.accepting)
    => /\ bubbleReply.pc # "resolving"
       /\ Len(sessionInputs) = bubbleReply.before.inputs + 1
       /\ LastInput = [sessionId |-> bubbleReply.bubbleInfo.sessionId,
                       text |-> bubbleReply.msg.text, delivered |-> TRUE]
       /\ forcedResumeToken[ChatId] = bubbleReply.before.forced
       /\ bubbleReply.result.orchestrationText = ""
       /\ bubbleReply.pc = "returned" => bubbleReply.result.type = "handled_directly"

\* A long reply to the first bubble was forwarded to its live session.
C6_Witness ==
    /\ bubbleReply.pc = "returned"
    /\ bubbleReply.bubbleInfo # null
    /\ bubbleReply.live.registered /\ bubbleReply.live.accepting
    /\ bubbleReply.msg.text = LongReply
    /\ bubbleReply.result.type = "handled_directly"
    /\ LastInput.text = LongReply

\* C7: when the bubble lookup succeeds and the bubble's session is not live,
\* the result is route_to_dydo, sendInput is not called, and the token forced
\* and named in the request is the bubble's stored resumeToken (with the
\* bubble's projectName), never a different token parsed from the text of the
\* replied-to message.
C7_DeadBubbleResumed ==
    (ReplyHandled /\ bubbleReply.bubbleInfo # null /\ ~bubbleReply.live.registered)
    => LET bubble == bubbleReply.bubbleInfo.bubble
           request == bubbleReply.result.orchestrationText
           shown == Parsed(ChatHistory[bubbleReply.msg.replyTo])
       IN  /\ bubbleReply.pc = "returned"
           /\ bubbleReply.result.type = "route_to_dydo"
           /\ Len(sessionInputs) = bubbleReply.before.inputs
           /\ forcedResumeToken[ChatId] = bubble.resumeToken
           /\ includes(request, "- resumeToken: \"" \o bubble.resumeToken \o "\"")
           /\ includes(request, "- project: \"" \o bubble.projectName \o "\"")
           /\ (shown # null /\ shown.resumeToken # bubble.resumeToken)
                  => ~includes(request, shown.resumeToken)

\* A reply to the first bubble, whose text shows another token than the one
\* stored, after its session exited.
C7_Witness ==
    /\ bubbleReply.pc = "returned"
    /\ bubbleReply.msg.replyTo = 1
    /\ bubbleReply.bubbleInfo # null
    /\ ~bubbleReply.live.registered
    /\ Parsed(ChatHistory[1]).resumeToken = ExampleToken
    /\ forcedResumeToken[ChatId] = StoredToken
    /\ bubbleReply.result.type = "route_to_dydo"

\* C8: when the session is found but the write fails (sendInput returns
\* false), no confirmation is sent and no error is reported: the bubble's
\* resume token is forced and the result is route_to_dydo.
C8_FailedWriteFallsBack ==
    (ReplyHandled /\ bubbleReply.bubbleInfo # null
        /\ Len(sessionInputs) = bubbleReply.before.inputs + 1
        /\ ~LastInput.delivered)
    => /\ bubbleReply.pc = "returned"
       /\ bubbleReply.result.type = "route_to_dydo"
       /\ Len(chatMessages) = bubbleReply.before.chat
       /\ forcedResumeToken[ChatId] = bubbleReply.bubbleInfo.bubble.resumeToken
       /\ includes(bubbleReply.result.orchestrationText,
                   "- resumeToken: \"" \o bubbleReply.bubbleInfo.bubble.resumeToken
                       \o "\"")

\* The session was registered, its channel closed: the write was tried and
\* failed.
C8_Witness ==
    /\ bubbleReply.pc = "returned"
    /\ bubbleReply.bubbleInfo # null
    /\ bubbleReply.live.registered /\ ~bubbleReply.live.accepting
    /\ Len(sessionInputs) = bubbleReply.before.inputs + 1
    /\ ~LastInput.delivered
    /\ bubbleReply.result.type = "route_to_dydo"

\* The text holds no "claude --resume " followed by 36 characters of [a-f0-9-].
C9_NoToken(text) ==
    ~\E i \in 1..Len(text) :
        /\ i + 15 + TokenLength <= Len(text)
        /\ SubSeq(text, i, i + 15) = "claude --resume "
        /\ \A j \in 1..TokenLength : Char(text, i + 15 + j) \in TokenChars

\* C9: when the replied-to message is no known bubble and its text holds no
\* resume token, handleBubbleReply returns not_bubble_reply having changed
\* nothing (no forced token, no logged command, no input, no chat message),
\* and the reply goes on to normal handling with its original text.
C9_UnrelatedReplyUntouched ==
    /\ (ReplyHandled /\ bubbleReply.bubbleInfo = null
            /\ C9_NoToken(ChatHistory[bubbleReply.msg.replyTo]))
       => /\ bubbleReply.pc = "returned"
          /\ bubbleReply.result.type = "not_bubble_reply"
          /\ forcedResumeToken[ChatId] = bubbleReply.before.forced
          /\ Len(dydoCommands) = bubbleReply.before.commands
          /\ Len(sessionInputs) = bubbleReply.before.inputs
          /\ Len(chatMessages) = bubbleReply.before.chat
    /\ (bubbleReply.pc = "idle" /\ bubbleReply.result.type = "not_bubble_reply")
       => /\ normalHandling # <<>>
          /\ normalHandling[Len(normalHandling)] = bubbleReply.msg.text

\* A reply to a message whose token is in upper case went on to normal
\* handling.
C9_Witness ==
    /\ bubbleReply.pc = "idle"
    /\ bubbleReply.result.type = "not_bubble_reply"
    /\ bubbleReply.msg.replyTo = 5
    /\ C9_NoToken(ChatHistory[5])
    /\ normalHandling = <<"yes, go ahead">>
    /\ dydoCommands = <<>>

\* The parse as the design words it. The place of the first word of text
\* (0 when there is none):
C10_Find(text, word) ==
    IF includes(text, word)
    THEN CHOOSE i \in 1..Len(text) :
            /\ i + Len(word) - 1 <= Len(text)
            /\ SubSeq(text, i, i + Len(word) - 1) = word
            /\ \A j \in 1..(i - 1) : SubSeq(text, j, j + Len(word) - 1) # word
    ELSE 0

\* The rest of the line from position i on
C10_RestOfLine(text, i) ==
    SubSeq(text, i,
           CHOOSE e \in (i - 1)..Len(text) :
              /\ e = Len(text) \/ Char(text, e + 1) = "\n"
              /\ \A j \in i..e : Char(text, j) # "\n")

\* The name in a status header, else "unknown"
C10_HeaderOrUnknown(text) ==
    IF exec(StatusHeader, text).found THEN trim(exec(StatusHeader, text).cap)
    ELSE "unknown"

\* The project names the description allows: the trimmed rest of the line
\* after "ctx:"; where that rest is blank, also what comes "else".
C10_Projects(text) ==
    IF C10_Find(text, "ctx:") = 0 THEN {C10_HeaderOrUnknown(text)}
    ELSE LET rest == trim(C10_RestOfLine(text, C10_Find(text, "ctx:") + 4))
         IN  IF rest = "" THEN {"", C10_HeaderOrUnknown(text)} ELSE {rest}

\* C10: what the fallback parser yields for a message text: the token is the
\* 36 characters after "claude --resume ", and the project is the trimmed rest
\* of the line after "ctx:", else the name in a status header, else "unknown".
C10_ParsedAsDescribed ==
    bubbleReply.fallbackInfo # null
    => LET text == ChatHistory[bubbleReply.msg.replyTo]
           at == C10_Find(text, "claude --resume ")
       IN  /\ at > 0
           /\ bubbleReply.fallbackInfo.resumeToken
                  = SubSeq(text, at + 16, at + 15 + TokenLength)
           /\ bubbleReply.fallbackInfo.projectName \in C10_Projects(text)

\* The example of the design: the text of the first message was parsed.
C10_Witness ==
    /\ bubbleReply.msg.replyTo = 1
    /\ includes(ChatHistory[1], "claude --resume " \o ExampleToken)
    /\ includes(ChatHistory[1], "\nctx: my-project @main")
    /\ bubbleReply.fallbackInfo =
           [resumeToken |-> ExampleToken, projectName |-> "my-project @main"]

\* The project the resume request of the reply in hand has to name: the
\* bubble's where the bubble was found, else the one parsed from the text.
C11_Project ==
    IF bubbleReply.bubbleInfo # null THEN bubbleReply.bubbleInfo.bubble.projectName
    ELSE bubbleReply.fallbackInfo.projectName

\* C11: when handleBubbleReply returns route_to_dydo, the forced resume token of
\* the chat is the token its request names, and the request is a resume request
\* naming the project, the reply text as task and the chat id; when it returns
\* anything else, the forced token of the chat is what it was before the reply.
C11_ForcedIffRouted ==
    bubbleReply.pc = "returned"
    => IF bubbleReply.result.type = "route_to_dydo"
       THEN LET request == bubbleReply.result.orchestrationText
                forced == forcedResumeToken[ChatId]
            IN  /\ forced # ""
                /\ startsWith(request, "[Claude Code Resume Request]")
                /\ includes(request, "EXACTLY this resumeToken: \"" \o forced \o "\"")
                /\ includes(request, "\n- resumeToken: \"" \o forced \o "\"")
                /\ includes(request, "\n- project: \"" \o C11_Project \o "\"")
                /\ includes(request, "\nUser said: \"" \o bubbleReply.msg.text \o "\"")
                /\ includes(request, "\n- chatId: \"" \o ChatId \o "\"")
       ELSE forcedResumeToken[ChatId] = bubbleReply.before.forced

\* A reply to a message the index does not know, resumed from the token its
\* text shows: the token was forced on the way out.
C11_Witness ==
    /\ bubbleReply.pc = "returned"
    /\ bubbleReply.result.type = "route_to_dydo"
    /\ bubbleReply.bubbleInfo = null
    /\ bubbleReply.before.forced = ""
    /\ forcedResumeToken[ChatId] = ExampleToken

\* C12: whenever DyDo acts on a resume request, the session it resumes is the
\* one the request names, whatever other replies were routed in between.
C12_ResumedAsRequested ==
    \A k \in 1..Len(resumes) : resumes[k].resumed = resumes[k].named

\* Two replies to the bubbles of two different sessions that have exited were
\* both routed, and DyDo has then acted on the first request.
C12_Witness ==
    /\ Len(normalHandling) = 2
    /\ includes(normalHandling[1], "\n- resumeToken: \"" \o StoredToken \o "\"")
    /\ includes(normalHandling[2], "\n- resumeToken: \"" \o OtherToken \o "\"")
    /\ Len(resumes) = 1
    /\ resumes[1].request = 1
    /\ resumes[1].named = StoredToken

-----------------------------------------------------------------------------
(* Properties of the assessor                                              *)

\* C13: when the oracle call of assessBlocker fails, assessBlocker still
\* returns an assessment, and it is isRealBlocker = true with confidence 0.5
\* and a reasoning that tells of the fallback.
C13_FailsOpen ==
    (assessment.pc = "done" /\ assessment.threw)
    => /\ assessment.result # undefined
       /\ assessment.result.isRealBlocker
       /\ assessment.result.confidence = "0.5"
       /\ includes(assessment.result.reasoning, "Assessment failed, defaulting")

\* The oracle call failed on a blocker the heuristic would have called a
\* false positive.
C13_Witness ==
    /\ assessment.pc = "done"
    /\ assessment.threw
    /\ ~assessment.pending.isRealBlocker
    /\ assessment.result.isRealBlocker

\* The texts of an assessed session the heuristic is meant to judge: the
\* reason and the matched patterns of the blocker and the recent messages.
C15_SessionTexts ==
    {assessment.blocker.reason, join(assessment.blocker.matchedPatterns, ", ")}
    \cup {sliceTo(sessionLog[i].text, MaxAssessedChars) :
            i \in {k \in 1..Len(sessionLog) : IsAssistantText(sessionLog[k])}}

C15_Wording(re) == \E t \in C15_SessionTexts : test(re, t)

\* The assessment the ordering completion, list/criteria, funding, default
\* gives for the session
C15_Expected ==
    IF C15_Wording(AssessedComplete) THEN <<FALSE, "0.9">>
    ELSE IF C15_Wording(AssessedListContext) THEN <<FALSE, "0.85">>
    ELSE IF C15_Wording(AssessedFunding) THEN <<TRUE, "0.9">>
    ELSE <<TRUE, "0.6">>

\* C15: the heuristic assessment of a blocker is a false positive with 0.9
\* when the session's texts have completion wording, else a false positive
\* with 0.85 when they have list/criteria wording, else real with 0.9 when
\* they have funding wording, else real with 0.6.
C15_HeuristicOrder ==
    (assessment.pc = "done" /\ ~assessment.threw)
    => <<assessment.result.isRealBlocker, assessment.result.confidence>> = C15_Expected

\* A funding blocker whose session has no completion and no list/criteria
\* wording has been assessed by the heuristic.
C15_Witness ==
    /\ assessment.pc = "done"
    /\ ~assessment.threw
    /\ sessionLog = <<AssistantMessage(FundingReport)>>
    /\ ~C15_Wording(AssessedComplete)
    /\ ~C15_Wording(AssessedListContext)
    /\ C15_Wording(AssessedFunding)

-----------------------------------------------------------------------------
(* Properties of the realtime intervention                                 *)

\* The realtime check has asked the oracle about the latest event and returned.
InterventionDecided == realtime.pc = "done" /\ realtime.suspected # undefined

\* C14: when the oracle call fails, or the oracle cannot handle the
\* situation, or it can but gives no response, checkForRealtimeIntervention
\* returns intervened = false and no response.
C14_FailsClosed ==
    (InterventionDecided
        /\ (~realtime.decision.canHandle \/ realtime.decision.response = ""))
    => /\ ~realtime.result.intervened
       /\ realtime.result.response = ""

\* The oracle call failed on a suspected blocker the heuristic would have
\* answered.
C14_Witness ==
    /\ InterventionDecided
    /\ realtime.decision.reasoning = "Intervention assessment failed, escalating to user"
    /\ invokeDyDoIntervention(
           buildInterventionContext(realtime.suspected, realtime.event.text,
                                    SessionContext(sessionLog))).canHandle
    /\ ~realtime.result.intervened

\* The decision of the latest realtime check is the one the heuristic makes.
C16_HeuristicDecided ==
    /\ InterventionDecided
    /\ realtime.decision =
           invokeDyDoIntervention(
               buildInterventionContext(realtime.suspected, realtime.event.text,
                                        SessionContext(sessionLog)))

\* C16: when the realtime detector fires on a message about funding, a wallet
\* or a balance that asks no yes/no question, checkForRealtimeIntervention
\* returns intervened = false and no response.
C16_FundingNotAnswered ==
    (C16_HeuristicDecided
        /\ test(FundingIssue, realtime.event.text)
        /\ ~test(YesNoQuestion, realtime.event.text)
        /\ ~includes(realtime.event.text, "?"))
    => /\ ~realtime.result.intervened
       /\ realtime.result.response = ""

\* The heuristic has decided on a funding report that asks nothing.
C16_Witness ==
    /\ C16_HeuristicDecided
    /\ realtime.event.text = FundingReport
    /\ ~includes(FundingReport, "?")
    /\ realtime.suspected.matchedPatterns[1]
           = "funding_needed:insufficient (sol|balance|funds)"

-----------------------------------------------------------------------------
(* The realtime check against the end-of-session check                     *)

\* C19: when the realtime pre-check fires on the most recent assistant message
\* of a session (detectBlocker(m, false) reports a blocker), the
\* end-of-session check of that session reports a blocker too.
C19_RealtimeNoLouder ==
    (endOfSession.called /\ endOfSession.recent # <<>>
        /\ OnText(LastRecent.text).strict # undefined)
    => endOfSession.scan.blocker # undefined

\* A session whose last message the realtime pre-check fires on, and whose
\* end-of-session check reports that message.
C19_Witness ==
    /\ endOfSession.called
    /\ endOfSession.recent # <<>>
    /\ LastRecent.text = SingleFunding
    /\ OnText(SingleFunding).strict # undefined
    /\ endOfSession.scan.from = Len(endOfSession.recent)
    /\ endOfSession.scan.blocker = OnText(SingleFunding).ended

-----------------------------------------------------------------------------
(* Properties of the reason of a blocker                                   *)

\* The sentence extractBlockerReason selects in a text, trimmed: the first
\* one of more than ten characters with a blocker keyword ("" with none).
C20_Selected(text) ==
    LET keyed == SelectSeq(splitSentences(text),
                           LAMBDA s : /\ Len(trim(s.text)) > 10
                                      /\ HasBlockerKeyword(s.text))
    IN  IF keyed = <<>> THEN "" ELSE trim(keyed[1].text)

C20_SelectedIn == [t \in Texts |-> C20_Selected(t)]

\* The blockers of the state, each with the text it was detected in.
C20_Blockers ==
    (IF realtime.suspected # undefined
     THEN {[blocker |-> realtime.suspected, text |-> realtime.event.text]}
     ELSE {})
    \cup
    (IF endOfSession.called /\ endOfSession.scan.blocker # undefined
     THEN {[blocker |-> endOfSession.scan.blocker,
            text |-> endOfSession.recent[endOfSession.scan.from].text]}
     ELSE {})

\* C20: the reason of every BlockerInfo has at most 150 characters, and
\* when the sentence selected for it has more than 150 characters the reason
\* is the first 147 characters of the sentence followed by "...".
C20_ReasonBounded ==
    \A b \in C20_Blockers :
        /\ Len(b.blocker.reason) <= 150
        /\ Len(C20_SelectedIn[b.text]) > 150
           => b.blocker.reason = SubSeq(C20_SelectedIn[b.text], 1, 147) \o "..."

\* The end-of-session check reports a blocker whose sentence has 181
\* characters: the reason has 150 and ends with the dots.
C20_Witness ==
    /\ endOfSession.called
    /\ endOfSession.scan.blocker # undefined
    /\ endOfSession.recent[endOfSession.scan.from].text = LongNeed
    /\ Len(C20_SelectedIn[LongNeed]) = 181
    /\ Len(endOfSession.scan.blocker.reason) = 150
    /\ endOfSession.scan.blocker.reason
           = "You need to claim SOL from the faucet before the deployment of the escrow program can go on because the wallet that pays the transaction fees on de..."

-----------------------------------------------------------------------------
(* Properties of one session with its interventor and its chat             *)

\* The session was cancelled while the oracle call of its latest event was
\* in flight.
CancelledInFlight ==
    \E k \in 1..Len(callbackAnswers) :
        /\ callbackAnswers[k].text = "Session cancelled"
        /\ callbackAnswers[k].realtime = "asking"

HumanInputs ==
    SelectSeq(sessionInputs,
              LAMBDA i : i.sessionId = MonitoredSession /\ i.delivered)

-----------------------------------------------------------------------------
(* Properties of the detector                                              *)

\* The places of a text where a code fence starts
C21_Fences(s) == {j \in 1..(Len(s) - 2) : SubSeq(s, j, j + 2) = "%%%"}

\* The text of s from place i on that is in no fenced code block: a block
\* goes from the first fence at or after i to the next fence after it.
RECURSIVE C21_Outside(_, _, _)
C21_Beyond(s, fences, i, opener, closers) ==
    IF closers = {} THEN SubSeq(s, i, Len(s))
    ELSE SubSeq(s, i, opener - 1) \o C21_Outside(s, fences, Min(closers) + 3)

C21_Outside(s, fences, i) ==
    IF {j \in fences : j >= i} = {} THEN SubSeq(s, i, Len(s))
    ELSE C21_Beyond(s, fences, i, Min({j \in fences : j >= i}),
                    {j \in fences : j >= Min({k \in fences : k >= i}) + 3})

\* A line whose first character after white space is "|", or with "|---" in it
C21_TableLine(line) ==
    \/ \E k \in 1..Len(line) :
          /\ SubSeq(line, k, k) = "|"
          /\ \A h \in 1..(k - 1) : SubSeq(line, h, h) \in WhiteSpace
    \/ \E k \in 1..(Len(line) - 3) : SubSeq(line, k, k + 3) = "|---"

\* What is left of a text without its fenced code blocks and table lines
C21_Visible(text) ==
    join(SelectSeq(splitLines(C21_Outside(text, C21_Fences(text), 1)),
                   LAMBDA line : ~C21_TableLine(line)), "\n")

\* What the patterns, the extractors and the reason make of the visible part
\* of a text
C21_OfVisible(text, visible, locals) ==
    [of |-> text,
     lastMessage |-> visible,
     matchedPatterns |-> locals.matchedPatterns,
     extractedContext |-> locals.extractedContext,
     reason |-> extractBlockerReason(visible, locals.primaryCategory)]

\* Computed once for the messages of the model
C21_VisibleFacts ==
    {C21_OfVisible(t, C21_Visible(t), Matched(C21_Visible(t)).locals) : t \in Texts}

C21_Expected(text) == CHOOSE f \in C21_VisibleFacts : f.of = text

\* C21: every BlockerInfo, of the end-of-session check and of the realtime
\* check, is made of the text without its fenced code blocks and its table
\* lines: lastMessage is that text, and matchedPatterns, extractedContext and
\* reason are what that text alone gives.
C21_BuiltFromFiltered ==
    \A b \in C20_Blockers :
        /\ b.blocker.lastMessage = C21_Expected(b.text).lastMessage
        /\ b.blocker.matchedPatterns = C21_Expected(b.text).matchedPatterns
        /\ b.blocker.extractedContext = C21_Expected(b.text).extractedContext
        /\ b.blocker.reason = C21_Expected(b.text).reason

\* Both checks reported a message with patterns in a code fence and in a
\* table line: only the two patterns outside of them are in the BlockerInfo.
C21_Witness ==
    /\ realtime.event.text = FencedAndDenied
    /\ realtime.suspected # undefined
    /\ realtime.suspected.lastMessage = "\nPermission denied, you need to log in again"
    /\ realtime.suspected.matchedPatterns =
          <<"waiting_for_user:you need to", "permission_needed:permission denied">>
    /\ endOfSession.called
    /\ endOfSession.scan.blocker = realtime.suspected

\* The places <<k, j>> of the patterns, the j-th of the k-th category
C26_Places ==
    UNION {{<<k, j>> : j \in 1..Len(BLOCKER_PATTERNS[k].patterns)} :
              k \in 1..Len(BLOCKER_PATTERNS)}

\* The places of the patterns that match the visible part of a text
C26_HitsOn(text, visible) ==
    [of |-> text,
     hits |-> {p \in C26_Places : test(BLOCKER_PATTERNS[p[1]].patterns[p[2]], visible)}]

\* Computed once for the messages of the model
C26_HitFacts == {C26_HitsOn(f.of, f.lastMessage) : f \in C21_VisibleFacts}

C26_Hits(text) == (CHOOSE f \in C26_HitFacts : f.of = text).hits

\* Place q is declared before place p, or is p.
C26_Before(q, p) == q[1] < p[1] \/ (q[1] = p[1] /\ q[2] <= p[2])

\* The category declared first among those with a pattern at the places hits
C26_Primary(hits) == BLOCKER_PATTERNS[Min({p[1] : p \in hits})].category

\* The text is one detectBlocker has to report.
C26_Reportable(text, hits, sessionEnded) ==
    /\ Len(text) >= 20
    /\ hits # {}
    /\ \/ sessionEnded
       \/ Cardinality(hits) >= 2
       \/ C26_Primary(hits) = "funding_needed"

\* matchedPatterns names the patterns at the places hits, in the order of
\* their declaration, the first of them of the primary category.
C26_InDeclarationOrder(matchedPatterns, hits) ==
    /\ matchedPatterns # <<>>
    /\ Len(matchedPatterns) = Cardinality(hits)
    /\ \A p \in hits :
          matchedPatterns[Cardinality({q \in hits : C26_Before(q, p)})]
             = BLOCKER_PATTERNS[p[1]].category \o ":"
                  \o BLOCKER_PATTERNS[p[1]].patterns[p[2]].source
    /\ \E p \in hits :
          /\ BLOCKER_PATTERNS[p[1]].category = C26_Primary(hits)
          /\ matchedPatterns[1] = C26_Primary(hits) \o ":"
                                     \o BLOCKER_PATTERNS[p[1]].patterns[p[2]].source

\* C26: detectBlocker(text, sessionEnded) returns a BlockerInfo exactly when
\* the raw text has at least 20 characters, at least one pattern matches the
\* text without fences and table lines, and sessionEnded is true or two
\* patterns matched or the primary category is funding_needed; a returned
\* BlockerInfo lists the matched patterns in declaration order, beginning
\* with one of the primary category.  The realtime check is the call with
\* sessionEnded false; the end-of-session check of a last message that is
\* neither list-like nor a completion is the call with sessionEnded true.
C26_ReportedExactlyWhenStrong ==
    /\ RealtimeChecked =>
          (realtime.suspected # undefined
              <=> C26_Reportable(realtime.event.text,
                                 C26_Hits(realtime.event.text), FALSE))
    /\ ( /\ endOfSession.called
         /\ endOfSession.recent # <<>>
         /\ ~OnText(LastRecent.text).completion
         /\ ~OnText(LastRecent.text).listLike )
       => (endOfSession.scan.from = Len(endOfSession.recent)
              <=> C26_Reportable(LastRecent.text, C26_Hits(LastRecent.text), TRUE))
    /\ \A b \in C20_Blockers :
          C26_InDeclarationOrder(b.blocker.matchedPatterns, C26_Hits(b.text))

\* A message with a single pattern of waiting_for_user: the realtime check
\* did not report it and the end-of-session check did.
C26_Witness ==
    /\ RealtimeChecked
    /\ realtime.event.text = LonePlease
    /\ realtime.suspected = undefined
    /\ endOfSession.called
    /\ LastRecent.text = LonePlease
    /\ endOfSession.scan.blocker # undefined
    /\ endOfSession.scan.blocker.matchedPatterns =
          <<"waiting_for_user:please (complete|finish|do|run|execute|claim|fund)">>
    /\ Cardinality(C26_Hits(LonePlease)) = 1

\* The places of the funding_needed patterns that match the visible part
C27_FundingHits(text) ==
    {p \in C26_Hits(text) : BLOCKER_PATTERNS[p[1]].category = "funding_needed"}

\* C27: a text of at least 20 characters in which a funding_needed pattern
\* matches (fences and table lines apart) is reported with sessionEnded false
\* as with sessionEnded true, also when funding_needed is not its primary
\* category: then a category declared earlier matched too, so that two
\* patterns matched.
C27_FundingAlwaysReported ==
    /\ ( /\ RealtimeChecked
         /\ Len(realtime.event.text) >= 20
         /\ C27_FundingHits(realtime.event.text) # {} )
       => /\ realtime.suspected # undefined
          /\ C26_Primary(C26_Hits(realtime.event.text)) # "funding_needed"
                => Len(realtime.suspected.matchedPatterns) >= 2
    /\ ( /\ endOfSession.called
         /\ endOfSession.recent # <<>>
         /\ ~OnText(LastRecent.text).completion
         /\ ~OnText(LastRecent.text).listLike
         /\ Len(LastRecent.text) >= 20
         /\ C27_FundingHits(LastRecent.text) # {} )
       => endOfSession.scan.from = Len(endOfSession.recent)

\* The realtime check reported a message whose funding patterns come after a
\* pattern of waiting_for_user.
C27_Witness ==
    /\ RealtimeChecked
    /\ realtime.event.text = CompleteButFunding
    /\ C27_FundingHits(CompleteButFunding) # {}
    /\ C26_Primary(C26_Hits(CompleteButFunding)) = "waiting_for_user"
    /\ realtime.suspected # undefined
    /\ realtime.suspected.matchedPatterns[1] = "waiting_for_user:you need to"

-----------------------------------------------------------------------------
(* Properties of the end-of-session scan                                   *)

\* The places of the scanned messages that are not list-like and on which
\* detectBlocker(text, true) reports
C28_Reporting ==
    {i \in 1..Len(endOfSession.recent) :
        /\ ~OnText(endOfSession.recent[i].text).listLike
        /\ OnText(endOfSession.recent[i].text).ended # undefined}

\* C28: the BlockerInfo checkEventsForBlocker returns is that of the most
\* recent scanned message that is not list-like and on which
\* detectBlocker(text, true) reports: every scanned message after the one it
\* comes from was list-like or gave no detection; and when the last message
\* is no completion and some scanned message reports, one is returned.
C28_FirstHitFromTheEnd ==
    endOfSession.called =>
        /\ endOfSession.scan.blocker # undefined =>
              /\ endOfSession.scan.from \in C28_Reporting
              /\ \A j \in C28_Reporting : j <= endOfSession.scan.from
              /\ endOfSession.scan.blocker
                    = OnText(endOfSession.recent[endOfSession.scan.from].text).ended
        /\ ( /\ C28_Reporting # {}
             /\ ~OnText(LastRecent.text).completion )
           => endOfSession.scan.blocker # undefined

\* Two scanned messages that both report: the blocker is the one of the
\* later message.
C28_Witness ==
    /\ endOfSession.called
    /\ Len(endOfSession.recent) = 2
    /\ endOfSession.recent[1].text = FundingReport
    /\ endOfSession.recent[2].text = LonePlease
    /\ C28_Reporting = {1, 2}
    /\ endOfSession.scan.from = 2
    /\ endOfSession.scan.blocker = OnText(LonePlease).ended
    /\ endOfSession.scan.blocker # OnText(FundingReport).ended

\* The places in the log of the assistant messages with a text
C29_Counting == {i \in 1..Len(sessionLog) : IsAssistantText(sessionLog[i])}

\* The places of the last n of them
C29_LastN(n) ==
    {i \in C29_Counting : Cardinality({j \in C29_Counting : j >= i}) <= n}

\* The events of the log at the places of a set, in arrival order
C29_EventsAt(places) ==
    [k \in 1..Cardinality(places) |-> sessionLog[Ascending(places)[k]]]

\* C29: checkEventsForBlocker scans the last N events that are assistant
\* messages with a text, in arrival order, and nothing else: the other
\* events do not count toward N, and a returned blocker comes from one of
\* these N messages, never from an older one.
C29_OnlyTheLastN ==
    endOfSession.called =>
        /\ endOfSession.recent = C29_EventsAt(C29_LastN(endOfSession.lastNEvents))
        /\ endOfSession.scan.blocker # undefined =>
              /\ endOfSession.scan.from \in 1..Len(endOfSession.recent)
              /\ endOfSession.scan.blocker
                    = OnText(C29_EventsAt(C29_LastN(endOfSession.lastNEvents))
                                [endOfSession.scan.from].text).ended

\* With N = 1, a funding report followed by a message without a pattern: the
\* report was not scanned and nothing was returned.
C29_Witness ==
    /\ endOfSession.called
    /\ endOfSession.lastNEvents = 1
    /\ sessionLog = <<AssistantMessage(FundingReport), AssistantMessage(FundingScenario)>>
    /\ endOfSession.recent = <<AssistantMessage(FundingScenario)>>
    /\ OnText(FundingReport).ended # undefined
    /\ endOfSession.scan.blocker = undefined

\* The scanned message at place i has completion wording, and is one the
\* scan reports when it comes to it.
C30_CompleteAndReporting(i) ==
    /\ OnText(endOfSession.recent[i].text).completion
    /\ ~OnText(endOfSession.recent[i].text).listLike
    /\ OnText(endOfSession.recent[i].text).ended # undefined

\* The scanned message at place j gives nothing: it is list-like or
\* detectBlocker(text, true) reports nothing on it.
C30_Silent(j) ==
    \/ OnText(endOfSession.recent[j].text).listLike
    \/ OnText(endOfSession.recent[j].text).ended = undefined

\* C30: the completion veto is on the most recent scanned message only.
\* When that message has no completion signal and every scanned message
\* after an earlier one is list-like or gives no blocker, the earlier message
\* is reported, even though it has completion wording next to its blocker
\* pattern.
C30_VetoOnLastOnly ==
    endOfSession.called =>
        \A i \in 1..(Len(endOfSession.recent) - 1) :
            ( /\ ~OnText(LastRecent.text).completion
              /\ C30_CompleteAndReporting(i)
              /\ \A j \in (i + 1)..Len(endOfSession.recent) : C30_Silent(j) )
            => /\ endOfSession.scan.from = i
               /\ endOfSession.scan.blocker = OnText(endOfSession.recent[i].text).ended

\* A message that says all tasks are complete and asks for funds, followed
\* by a list item: the earlier message was reported.
C30_Witness ==
    /\ endOfSession.called
    /\ Len(endOfSession.recent) = 2
    /\ endOfSession.recent[1].text = CompleteButFunding
    /\ endOfSession.recent[2].text = ListScenario
    /\ OnText(CompleteButFunding).completion
    /\ ~OnText(ListScenario).completion
    /\ OnText(ListScenario).listLike
    /\ endOfSession.scan.from = 1
    /\ endOfSession.scan.blocker # undefined
    /\ endOfSession.scan.blocker.matchedPatterns[2] = "funding_needed:faucet"

-----------------------------------------------------------------------------
(* Properties of the outcome of a reply                                    *)

Outcomes == {"not_bubble_reply", "handled_directly", "route_to_dydo"}

\* C22: handleBubbleReply never ends in an exception, and when it has
\* returned its result is one of the three tagged outcomes, route_to_dydo
\* with the text of the request.
C22_AlwaysAnOutcome ==
    /\ bubbleReply.pc # "threw"
    /\ bubbleReply.pc = "returned"
       => /\ bubbleReply.result.type \in Outcomes
          /\ bubbleReply.result.type = "route_to_dydo"
             <=> bubbleReply.result.orchestrationText # ""

\* The reply went to a bubble that is not in the index, its token was parsed
\* from the text of the message, and resolveProject failed.
C22_Witness ==
    /\ bubbleReply.pc = "threw"
    /\ bubbleReply.bubbleInfo = null
    /\ bubbleReply.fallbackInfo # null
    /\ Len(dydoCommands) = bubbleReply.before.commands + 1
    /\ Len(chatMessages) = bubbleReply.before.chat

-----------------------------------------------------------------------------
(* Properties of the waiting for the oracle                                *)

-----------------------------------------------------------------------------
(* Properties of the thinking default                                      *)

\* The models of ModelRefs whose id contains "gemini"
C24_GeminiModels == {"gemini-3-flash", "gemini-pro", "google/gemini-2.0-flash-001"}

\* The catalog marks the provider and model of the call as reasoning-capable.
C24_Capable ==
    \/ /\ thinking.catalog = reasoningCatalog
       /\ <<thinking.provider, thinking.model>> \in
             {<<"anthropic", "claude-sonnet-4">>, <<"google", "gemini-3-flash">>}

\* What the tests of resolveThinkingDefault expect of the calls they make
C24_Expectations ==
    {[cfg |-> "high", provider |-> "anthropic", model |-> "claude-sonnet-4",
      catalog |-> {}, expected |-> "high"],
     [cfg |-> NotConfigured, provider |-> "google", model |-> "gemini-3-flash",
      catalog |-> reasoningCatalog, expected |-> "off"],
     [cfg |-> NotConfigured, provider |-> "google", model |-> "gemini-pro",
      catalog |-> {}, expected |-> "off"],
     [cfg |-> NotConfigured, provider |-> "openrouter",
      model |-> "google/gemini-2.0-flash-001", catalog |-> {}, expected |-> "off"],
     [cfg |-> "low", provider |-> "google", model |-> "gemini-3-flash",
      catalog |-> {}, expected |-> "low"],
     [cfg |-> NotConfigured, provider |-> "anthropic", model |-> "claude-sonnet-4",
      catalog |-> reasoningCatalog, expected |-> "low"],
     [cfg |-> NotConfigured, provider |-> "openai", model |-> "gpt-4o",
      catalog |-> nonReasoningCatalog, expected |-> "off"]}

-----------------------------------------------------------------------------
(* Properties of the re-authentication script                              *)

\* A run in check mode never starts the login and never runs the sync.
C25_OnlyChecks ==
    /\ ~reauth.login
    /\ ~reauth.synced
    /\ reauth.pc \notin {"login", "oauth", "sync"}

\* C25 as stated: in --check mode the script only checks: on every path it
\* exits before the re-authentication (no tmux login session) and before the
\* keychain sync, with exit code 1 when the token is expired, 2 when it
\* expires in under an hour, and 0 otherwise.
C25_CheckModeExitCodes ==
    reauth.argument = "--check" =>
        /\ C25_OnlyChecks
        /\ reauth.pc = "exited" =>
              reauth.exit = (IF reauth.found /\ reauth.readStatus = 0 /\ reauth.timeDiff < 0
                             THEN 1
                             ELSE IF /\ reauth.found /\ reauth.readStatus = 0
                                     /\ reauth.timeDiff < HourSeconds
                             THEN 2
                             ELSE 0)

\* C25 amended: in --check mode the script only checks: on every path it
\* exits before the re-authentication and before the keychain sync, with exit
\* code 1 when the keychain has no token, with the status of the failing
\* command when reading the token fails, and else with 1 when the token is
\* expired, 2 when it expires in under an hour, and 0 otherwise.
C25_CheckModeExitCodesWithToken ==
    reauth.argument = "--check" =>
        /\ C25_OnlyChecks
        /\ reauth.pc = "exited" =>
              reauth.exit = (IF ~reauth.found THEN 1
                             ELSE IF reauth.readStatus # 0 THEN reauth.readStatus
                             ELSE IF reauth.timeDiff < 0 THEN 1
                             ELSE IF reauth.timeDiff < HourSeconds THEN 2
                             ELSE 0)

\* A check of a token with 3599 seconds left has exited with 2.
C25_Witness ==
    /\ reauth.argument = "--check"
    /\ reauth.pc = "exited"
    /\ reauth.found
    /\ reauth.readStatus = 0
    /\ reauth.timeDiff = 3599
    /\ reauth.exit = 2
    /\ ~reauth.synced

-----------------------------------------------------------------------------
(* Properties of the reason, of the realtime result and of the requests    *)

\* The first fragment of a text, cut at . ! ? and newline, that has at least
\* 10 characters and one of the blocker keywords, trimmed ("" with none)
C31_Sentence(visible) ==
    LET keyed == SelectSeq(splitSentences(visible),
                           LAMBDA s : /\ Len(trim(s.text)) >= 10
                                      /\ \E w \in {"need", "wait", "please",
                                                   "blocked", "failed"} :
                                            includes(toLowerCase(s.text), w))
    IN  IF keyed = <<>> THEN "" ELSE trim(keyed[1].text)

\* The reason the design gives a blocker found in a text
C31_ReasonOn(text, sentence, hits) ==
    [of |-> text,
     reason |-> IF sentence = "" THEN CannedReason(C26_Primary(hits))
                ELSE IF Len(sentence) <= 150 THEN sentence
                ELSE SubSeq(sentence, 1, 147) \o "..."]

\* Computed once for the messages of the model in which a pattern matches
C31_ReasonFacts ==
    {C31_ReasonOn(f.of, C31_Sentence(f.lastMessage), C26_Hits(f.of)) :
        f \in {g \in C21_VisibleFacts : C26_Hits(g.of) # {}}}

C31_Reason(text) == (CHOOSE f \in C31_ReasonFacts : f.of = text).reason

\* C31: the reason of a reported blocker is the first sentence of the text
\* without fences and table lines (cut at ".", "!", "?" and newline,
\* fragments shorter than 10 characters apart) that has one of need, wait,
\* please, blocked, failed in any case, trimmed and cut to 150 characters;
\* without such a sentence it is the canned string of the primary category.
C31_ReasonIsFirstKeyedSentence ==
    \A b \in C20_Blockers : b.blocker.reason = C31_Reason(b.text)

\* The reason of the blocker of a funding report is its first sentence.
C31_Witness ==
    /\ realtime.event.text = FundingReport
    /\ realtime.suspected # undefined
    /\ realtime.suspected.reason = "Airdrop failed: insufficient SOL"
    /\ C31_Reason(FundingReport) = "Airdrop failed: insufficient SOL"

\* The strict-mode detector fires on the event of the realtime check.
C32_DetectorFired ==
    /\ IsAssistantText(realtime.event)
    /\ C26_Reportable(realtime.event.text, C26_Hits(realtime.event.text), FALSE)

\* The oracle answered that it can handle the event, with a response.
C32_OracleHandles ==
    /\ realtime.decision # undefined
    /\ realtime.decision.canHandle
    /\ realtime.decision.response # ""

\* C32: checkForRealtimeIntervention returns intervened = true exactly when
\* the event is an assistant message with a text, the strict detector fired
\* on it and the oracle can handle it with a non-empty response; a result
\* with intervened = true carries that response, one with intervened = false
\* carries none, and an event that is no assistant message with a text is
\* answered without the detector and without the oracle.
C32_IntervenedExactlyWhenHandled ==
    realtime.pc = "done" =>
        /\ realtime.result.intervened <=> (C32_DetectorFired /\ C32_OracleHandles)
        /\ realtime.result.intervened =>
              /\ realtime.result.response = realtime.decision.response
              /\ realtime.result.response # ""
        /\ ~realtime.result.intervened => realtime.result.response = ""
        /\ ~IsAssistantText(realtime.event) =>
              /\ realtime.suspected = undefined
              /\ realtime.decision = undefined
              /\ realtime.result = NotIntervened("Not an assistant message")
        /\ (IsAssistantText(realtime.event) /\ ~C32_DetectorFired) =>
              realtime.decision = undefined

\* DyDo handled a permission message with a response of its own.
C32_Witness ==
    /\ realtime.pc = "done"
    /\ realtime.event.text = FencedAndDenied
    /\ C32_DetectorFired
    /\ realtime.decision.canHandle
    /\ realtime.result.intervened
    /\ realtime.result.response = "Use the staging database."

\* The Router is consulted first, and only for a reply with a text: a message
\* goes to handleBubbleReply only when it is such a reply, any other message
\* goes to normal handling as it is, and nothing goes to normal handling while
\* handleBubbleReply has not returned.
C33_RouterFirst ==
    /\ (bubbleReply.pc = "idle" /\ bubbleReply'.pc = "called")
          => /\ bubbleReply'.msg.replyTo # 0
             /\ bubbleReply'.msg.text # ""
             /\ normalHandling' = normalHandling
    /\ bubbleReply.pc \in {"called", "resolving", "sending", "threw"}
          => normalHandling' = normalHandling

\* The processor goes on after handleBubbleReply returned.
C33_GoesOn == bubbleReply.pc = "returned" /\ bubbleReply'.pc = "idle"

\* The text normal handling gets for the outcome in hand
C33_TextFor(reply) ==
    IF reply.result.type = "route_to_dydo" THEN reply.result.orchestrationText
    ELSE reply.msg.text

\* C33 as stated: the processor consults the Router first and only for text
\* replies; handled_directly: the message never reaches context building and
\* dispatch; route_to_dydo: it is dispatched once with the orchestration text
\* as its text; not_bubble_reply: it is dispatched once with its own text.
C33_OutcomeDecidesDispatch ==
    [][ /\ C33_RouterFirst
        /\ C33_GoesOn =>
              IF bubbleReply.result.type = "handled_directly"
              THEN normalHandling' = normalHandling /\ contextBuilt' = contextBuilt
              ELSE /\ normalHandling' = Append(normalHandling, C33_TextFor(bubbleReply))
                   /\ contextBuilt' = Append(contextBuilt, TRUE) ]_vars

\* C33 amended: the processor consults the Router first and only for text
\* replies; handled_directly: the message never reaches context building and
\* dispatch; route_to_dydo: it goes once to context building with the
\* orchestration text as its text; not_bubble_reply: it goes once to context
\* building with its own text; and it is dispatched, once, exactly when
\* context building gives a context.
C33_OutcomeDecidesHandling ==
    [][ /\ C33_RouterFirst
        /\ C33_GoesOn =>
              IF bubbleReply.result.type = "handled_directly"
              THEN normalHandling' = normalHandling /\ contextBuilt' = contextBuilt
              ELSE /\ normalHandling' = Append(normalHandling, C33_TextFor(bubbleReply))
                   /\ \E context \in BOOLEAN :
                         contextBuilt' = Append(contextBuilt, context) ]_vars

\* A reply routed to DyDo went to context building with the resume request
\* as its text, and no context was built for it: it was not dispatched.
C33_Witness ==
    /\ bubbleReply.pc = "idle"
    /\ bubbleReply.result.type = "route_to_dydo"
    /\ normalHandling # <<>>
    /\ normalHandling[Len(normalHandling)] = bubbleReply.result.orchestrationText
    /\ bubbleReply.result.orchestrationText # bubbleReply.msg.text
    /\ ~contextBuilt[Len(contextBuilt)]

\* The reply in hand is on the textual fallback (no bubble, a token in the
\* text of the replied-to message) and its project was not resolved.
C34_Unresolved ==
    /\ bubbleReply.pc \in {"sending", "returned"}
    /\ bubbleReply.bubbleInfo = null
    /\ bubbleReply.fallbackInfo # null
    /\ bubbleReply.fallbackInfo.projectName \notin KnownProjects

\* C34: on the textual fallback, when the project of the replied-to message
\* ("unknown" when it names none) cannot be resolved, handleBubbleReply sends
\* one chat message naming the project and returns handled_directly, without
\* having written a forced resume token or built a request; on that path the
\* forced token is written only once the project was resolved.
C34_UnresolvedProjectIsReported ==
    /\ C34_Unresolved =>
          /\ Len(chatMessages) = bubbleReply.before.chat + 1
          /\ chatMessages[Len(chatMessages)]
                = "Could not find project: " \o bubbleReply.fallbackInfo.projectName
          /\ forcedResumeToken[ChatId] = bubbleReply.before.forced
          /\ bubbleReply.result.orchestrationText = ""
          /\ bubbleReply.pc = "returned" => bubbleReply.result.type = "handled_directly"
    /\ ( /\ bubbleReply.pc \in {"called", "resolving", "sending", "threw"}
         /\ bubbleReply.bubbleInfo = null )
       => forcedResumeToken[ChatId] = bubbleReply.before.forced
    /\ ( /\ bubbleReply.pc = "returned"
         /\ bubbleReply.bubbleInfo = null
         /\ forcedResumeToken[ChatId] # bubbleReply.before.forced )
       => /\ bubbleReply.fallbackInfo # null
          /\ bubbleReply.fallbackInfo.projectName \in KnownProjects
          /\ forcedResumeToken[ChatId] = bubbleReply.fallbackInfo.resumeToken

\* A reply to a message that shows a token and names no project: the chat was
\* told that project "unknown" was not found, and nothing was forced.
C34_Witness ==
    /\ bubbleReply.pc = "returned"
    /\ bubbleReply.msg.replyTo = 3
    /\ C34_Unresolved
    /\ bubbleReply.fallbackInfo.projectName = "unknown"
    /\ chatMessages[Len(chatMessages)] = "Could not find project: unknown"
    /\ bubbleReply.result.type = "handled_directly"
    /\ forcedResumeToken[ChatId] = ""

\* What the handler looks up for the query that arrives in a step, in the
\* state before the step
C35_Parsed == parseClaudeCallback(callback'.data)

C35_Arrives(action) ==
    /\ callback'.queries > callback.queries
    /\ C35_Parsed # null
    /\ C35_Parsed.action = action

C35_LiveSession ==
    {i \in SessionIds : /\ liveSessions[i].registered
                        /\ startsWith(SessionToken[i], C35_Parsed.tokenPrefix)}

C35_IndexedBubbles ==
    {bubbleIndex[m].bubble : m \in {n \in MessageIds :
        /\ bubbleIndex[n] # null
        /\ startsWith(bubbleIndex[n].bubble.resumeToken, C35_Parsed.tokenPrefix)}}

\* C35: the continue button on a session the handler finds in memory starts no
\* process and sends that session the input "continue"; on a session it does
\* not find, a process is started only for a bubble it finds in the index,
\* with the resume token and the working directory stored in that bubble, and
\* with no bubble nothing is started; the cancel button cancels only a session
\* found in memory.
C35_ContinueSpawnsOnlyFromBubble ==
    [][/\ C35_Arrives("continue") /\ C35_LiveSession # {}
          => /\ callback'.pc = "returned"
             /\ callback'.started = callback.started
             /\ \E i \in C35_LiveSession :
                   callback'.inputs =
                       Append(callback.inputs, [sessionId |-> i, text |-> "continue"])
       /\ C35_Arrives("continue") /\ C35_LiveSession = {} /\ C35_IndexedBubbles = {}
          => /\ callback'.pc = "returned"
             /\ callback'.started = callback.started
             /\ callback'.inputs = callback.inputs
       /\ C35_Arrives("continue") /\ callback'.pc = "resuming"
          => /\ C35_LiveSession = {}
             /\ callback'.bubble \in C35_IndexedBubbles
             /\ callback'.started = callback.started
       /\ callback'.started # callback.started
          => /\ callback.pc = "resuming"
             /\ callback'.started =
                   Append(callback.started,
                          [workingDir |-> callback.bubble.workingDir,
                           resumeToken |-> callback.bubble.resumeToken,
                           prompt |-> "continue"])
       /\ callback'.cancelled # callback.cancelled
          => /\ C35_Arrives("cancel")
             /\ \E i \in C35_LiveSession :
                   callback'.cancelled = Append(callback.cancelled, i)
       /\ callback'.inputs # callback.inputs => C35_Arrives("continue")
      ]_vars

\* The live session of one bubble was sent "continue", and the session of the
\* other, gone from memory, was started again from its bubble.
C35_Witness ==
    /\ callback.inputs = <<[sessionId |-> "s2", text |-> "continue"]>>
    /\ callback.started = <<[workingDir |-> "/repos/my-project",
                             resumeToken |-> StoredToken, prompt |-> "continue"]>>
    /\ callback.cancelled = <<>>

\* The data of the model that have the form of a button of a bubble
C36_WellFormed ==
    {"claude:continue:9b2e4c1a", "claude:cancel:9b2e4c1a",
     "claude:continue:0f8fad5b", "claude:cancel:0f8fad5b",
     "claude:continue:123e4567", "claude:cancel:123e4567"}

\* C36: a query with the data of a button is answered exactly once by the time
\* the handler returns, never more than once before, and the handler returns
\* true, whatever became of the session, the cancellation, the bubble and the
\* resumption; for any other data the handler returns false, answers nothing
\* and touches no session.
C36_AnsweredExactlyOnce ==
    /\ [](/\ Len(callback.answers) <= 1
          /\ callback.queries > 0 /\ callback.pc = "returned"
             => IF callback.data \in C36_WellFormed
                THEN callback.returned = "true" /\ Len(callback.answers) = 1
                ELSE callback.returned = "false" /\ callback.answers = <<>>
          /\ callback.queries > 0 /\ callback.pc # "returned"
             => callback.data \in C36_WellFormed /\ callback.returned = "none")
    /\ [][callback'.queries > callback.queries /\ callback'.data \notin C36_WellFormed
          => /\ callback'.started = callback.started
             /\ callback'.inputs = callback.inputs
             /\ callback'.cancelled = callback.cancelled
             /\ liveSessions' = liveSessions]_vars

\* The resumption of a session from its bubble failed: answered once, true.
C36_Witness ==
    /\ callback.data = "claude:continue:9b2e4c1a"
    /\ callback.failures = 1
    /\ callback.pc = "returned"
    /\ callback.returned = "true"
    /\ callback.answers = <<"Resuming session...">>

\* C37: every call of updateSessionBubble for the session started from the
\* continue button comes after createSessionBubble for it has completed.
C37_NoUpdateBeforeBubble ==
    \A i \in 1..Len(callback.updates) : callback.updates[i].created

\* A state change pushed before startSession returned was dropped, and one
\* pushed while createSessionBubble was awaited was not.
C37_Witness ==
    /\ callback.pc = "creating"
    /\ callback.dropped = 1
    /\ callback.updates = <<[sessionId |-> "s3", created |-> FALSE]>>

\* The request of a token: a resume request with the token in rule 2 and in
\* the values of the tool call
C38_NamesToken(request, token) ==
    /\ startsWith(request, "[Claude Code Resume Request]\n")
    /\ includes(request, "You MUST use EXACTLY this resumeToken: \"" \o token \o "\"\n")
    /\ includes(request, "- resumeToken: \"" \o token \o "\" <- MUST USE THIS EXACT TOKEN\n")

\* C38: the request built for action "resume" with a resume token is a resume
\* request naming that token as the exact token to use, whatever the other
\* parameters, --quick among them.
C38_ResumeNamesToken ==
    planning.built /\ planning.params.action = "resume"
                   /\ planning.params.resumeToken # ""
        => C38_NamesToken(planning.request, planning.params.resumeToken)

\* A resume with --quick: a quick start that the token is no part of
C38_Witness ==
    /\ planning.built
    /\ planning.params.action = "resume"
    /\ planning.params.quick
    /\ planning.params.resumeToken = "9b2e4c1a-7d3f-4e8a-b5c6-1f2a3b4c5d6e"
    /\ startsWith(planning.request, "[Claude Code Quick Start]\n")
    /\ ~includes(planning.request, "9b2e4c1a")

\* The same without --quick
C38_ResumeNamesTokenUnlessQuick ==
    planning.built /\ planning.params.action = "resume"
                   /\ planning.params.resumeToken # "" /\ ~planning.params.quick
        => C38_NamesToken(planning.request, planning.params.resumeToken)

====
